---- MODULE Spec2Model ----
(***************************************************************************)
(* A model of cv-ninja's tiled prediction engine                           *)
(* (src/src/cv_ninja/predictors/tiling.py): ImageTiler.split_image,        *)
(* ImageTiler.predict_tiled, ImageTiler.combine_predictions and            *)
(* ImageTiler._apply_nms_coco_format with its IoU, and of the format       *)
(* converters FormDataFormatConverter and BinaryFormatConverter            *)
(* (src/src/cv_ninja/predictors/formats.py).                               *)
(*                                                                         *)
(* Pixel coordinates, box sizes and scores are integers (scores in         *)
(* tenths); an IoU and an IoU threshold are exact fractions <<num, den>>   *)
(* with den > 0.  Category names are sequences of character codes, so      *)
(* that their lexicographic order is computed, not assumed.                *)
(***************************************************************************)
EXTENDS Integers, Sequences, FiniteSets, TLC

VARIABLES
    entry,             \* the public operation this run calls
    pc,                \* position inside the running operation
    tile_width,        \* ImageTiler.tile_width
    tile_height,       \* ImageTiler.tile_height
    overlap,           \* ImageTiler.overlap
    iou_threshold,     \* ImageTiler.iou_threshold, a fraction <<num, den>>
    width,             \* image.size[0]
    height,            \* image.size[1]
    x,                 \* split_image: column position
    y,                 \* split_image: row position
    tile_index,        \* split_image: next tile number
    tiles,             \* split_image: tiles emitted so far
    tile_pos,          \* predict_tiled: position of the for loop in tiles
    tile_predictions,  \* predict_tiled / combine_predictions: tile results
    combined,          \* the document combine_predictions returned, if any
    annotations,       \* _apply_nms_coco_format: its argument
    keep,              \* _apply_nms_coco_format: what it returned
    keep_again,        \* _apply_nms_coco_format applied to keep
    iou_bbox1,         \* _calculate_iou_coco_format: first argument
    iou_bbox2,         \* _calculate_iou_coco_format: second argument
    iou,               \* what _calculate_iou_coco_format returned
    native,            \* a converter's native payload (to_coco's argument)
    coco,              \* what to_coco returned, or the error it raised
    restored,          \* what from_coco returned for coco
    now,               \* time.time(), in whole seconds
    cache_duration,    \* IAMTokenAuth.cache_duration
    token,             \* IAMTokenAuth._token
    token_expiry,      \* IAMTokenAuth._token_expiry
    headers,           \* how the last get_headers call ended
    output_mode,       \* 'annotations' or 'predictions' (Label Studio)
    output_format,     \* the predict command's --format
    formatted          \* what the output formatter returned

vars == <<entry, pc, tile_width, tile_height, overlap, iou_threshold, width,
          height, x, y, tile_index, tiles, tile_pos, tile_predictions,
          combined, annotations, keep, keep_again, iou_bbox1, iou_bbox2, iou, native,
          coco, restored, now, cache_duration, token, token_expiry, headers,
          output_mode, output_format, formatted>>

tilerVars == <<tile_width, tile_height, overlap, iou_threshold, width, height>>
splitVars == <<x, y, tile_index, tiles>>
nmsVars == <<annotations, keep, keep_again>>
iouVars == <<iou_bbox1, iou_bbox2, iou>>
convVars == <<native, coco, restored>>
authVars == <<now, cache_duration, token, token_expiry, headers>>
formatVars == <<output_mode, output_format, formatted>>

(***************************************************************************)
(* Bounds of the model.                                                    *)
(***************************************************************************)
MaxImage == 4          \* image width and height range over 1..MaxImage
MaxTile == 3           \* tile width and height range over 1..MaxTile
MaxOverlap == 3        \* overlap ranges over 0..MaxOverlap
\* split_image of a valid configuration emits at most width * height tiles;
\* the loop of an invalid configuration is cut one tile beyond that.
TileCap == MaxImage * MaxImage + 1

Min(a, b) == IF a < b THEN a ELSE b
Max(a, b) == IF a > b THEN a ELSE b

\* A value for "nothing yet": the call has not run or has not returned.
NoResult == [returned |-> FALSE]

\* No IAMTokenAuth takes part in the run.
AuthUnused ==
    /\ now = 0
    /\ cache_duration = 0
    /\ token = "None"
    /\ token_expiry = 0
    /\ headers = NoResult

\* No Label Studio converter and no output formatter takes part in the run.
FormatterUnused ==
    /\ output_mode = "annotations"
    /\ output_format = "labelstudio"
    /\ formatted = NoResult

\* A value for "no document" (combine_predictions has not returned).
NoDocument == [returned |-> FALSE]

(***************************************************************************)
(* ImageTiler.split_image                                                  *)
(***************************************************************************)
StrideXGap == tile_width + overlap
stride_x == tile_width - overlap
\* The operands of the row stride exchanged.
StrideYExchanged == overlap - tile_height
stride_y == tile_height - overlap

\* The configuration the spec calls valid: 0 <= overlap < tile size.
ValidTileConfig ==
    /\ 0 <= overlap
    /\ overlap < tile_width
    /\ overlap < tile_height

x_end == Min(x + tile_width, width)
y_end == Min(y + tile_height, height)
\* The tile starts at x even at the right edge.
XStartNotPulledBack == x
x_start == IF x_end = width THEN Max(0, x_end - tile_width) ELSE x
y_start == IF y_end = height THEN Max(0, y_end - tile_height) ELSE y

\* The dictionary appended for the tile at (x, y); 'image' is the crop box.
TileAtXY ==
    [image |-> <<x_start, y_start, x_end, y_end>>,
     x_offset |-> x_start,
     y_offset |-> y_start,
     tile_index |-> tile_index,
     tile_width |-> x_end - x_start,
     tile_height |-> y_end - y_start]

\* Where control goes when split_image returns.
SplitReturnPc == IF entry = "predict_tiled" THEN "for_tile" ELSE "return"

\* Lines 68-76: the locals, y = 0.
SplitBegin ==
    /\ pc = "split_image"
    /\ tiles' = <<>>
    /\ tile_index' = 0
    /\ y' = 0
    /\ x' = 0
    /\ pc' = "while_y"
    /\ UNCHANGED <<formatVars, authVars, iouVars, convVars, entry,
                 tilerVars, tile_pos, tile_predictions, combined, nmsVars>>

\* Line 77-78: while y < height: x = 0.
SplitWhileY ==
    /\ pc = "while_y"
    /\ IF y < height
          THEN x' = 0 /\ pc' = "while_x"
          ELSE x' = x /\ pc' = SplitReturnPc
    /\ UNCHANGED <<formatVars, authVars, iouVars, convVars, entry,
                 tilerVars, y, tile_index, tiles, tile_pos,
                   tile_predictions, combined, nmsVars>>

\* Lines 79-104: one iteration of while x < width, with its break.
SplitWhileX ==
    /\ pc = "while_x"
    /\ Len(tiles) < TileCap
    /\ IF x < width
          THEN /\ tiles' = Append(tiles, TileAtXY)
               /\ tile_index' = tile_index + 1
               /\ x' = x + stride_x
               /\ pc' = IF x' >= width THEN "after_x" ELSE "while_x"
          ELSE /\ UNCHANGED <<tiles, tile_index, x>>
               /\ pc' = "after_x"
    /\ UNCHANGED <<formatVars, authVars, iouVars, convVars, entry,
                 tilerVars, y, tile_pos, tile_predictions, combined, nmsVars>>

\* Lines 106-111: y += stride_y, the break, the return.
SplitAfterX ==
    /\ pc = "after_x"
    /\ y' = y + stride_y
    /\ pc' = IF y' >= height THEN SplitReturnPc ELSE "while_y"
    /\ UNCHANGED <<formatVars, authVars, iouVars, convVars, entry,
                 tilerVars, x, tile_index, tiles, tile_pos,
                   tile_predictions, combined, nmsVars>>

NextSplit == SplitBegin \/ SplitWhileY \/ SplitWhileX \/ SplitAfterX

\* A call of split_image on any image and any configuration the constructor
\* accepts (it validates nothing).
InitSplit ==
    /\ entry = "split_image"
    /\ pc = "split_image"
    /\ tile_width \in 1..MaxTile
    /\ tile_height \in 1..MaxTile
    /\ overlap \in 0..MaxOverlap
    /\ iou_threshold = <<1, 2>>
    /\ width \in 1..MaxImage
    /\ height \in 1..MaxImage
    /\ x = 0
    /\ y = 0
    /\ tile_index = 0
    /\ tiles = <<>>
    /\ tile_pos = 0
    /\ tile_predictions = <<>>
    /\ combined = NoDocument
    /\ annotations = <<>>
    /\ keep = <<>>
    /\ keep_again = <<>>
    /\ iou_bbox1 = <<>>
    /\ iou_bbox2 = <<>>
    /\ iou = NoResult
    /\ native = NoResult
    /\ coco = NoResult
    /\ restored = NoResult
    /\ AuthUnused
    /\ FormatterUnused

SpecSplit == InitSplit /\ [][NextSplit]_vars

\* The same call, run to its end: split_image is straight-line code in one
\* thread, so a step that can be taken is taken.
SpecSplitFair == SpecSplit /\ WF_vars(NextSplit)

(***************************************************************************)
(* ImageTiler._calculate_iou_coco_format and _apply_nms_coco_format         *)
(***************************************************************************)
MaxNmsLen == 3         \* _apply_nms_coco_format is given at most this many

\* p < q and p <= q for fractions <<num, den>> with den > 0.
FracLess(p, q) == p[1] * q[2] < q[1] * p[2]
FracLessEq(p, q) == p[1] * q[2] <= q[1] * p[2]

\* ann.get('bbox'): a missing bbox is the empty list.
BBoxOf(ann) == IF "bbox" \in DOMAIN ann THEN ann.bbox ELSE <<>>

\* x.get('score', 0), the sort key.
ScoreKey(ann) == IF "score" \in DOMAIN ann THEN ann.score ELSE 0

\* "No intersection" only when the boxes are apart on both axes.
NoIntersectionOnBothAxes(x1_inter, y1_inter, x2_inter, y2_inter) ==
    x2_inter < x1_inter /\ y2_inter < y1_inter
\* Line 434: if x2_inter < x1_inter or y2_inter < y1_inter.
NoIntersection(x1_inter, y1_inter, x2_inter, y2_inter) ==
    x2_inter < x1_inter \/ y2_inter < y1_inter

\* The two areas added up, the shared part counted twice.
UnionAreaSharedTwice(area1, area2, intersection) == area1 + area2
\* Line 442: union = area1 + area2 - intersection.
UnionArea(area1, area2, intersection) == area1 + area2 - intersection

\* The IoU of two COCO boxes [x, y, width, height], as a fraction.
calculate_iou_coco_format(bbox1, bbox2) ==
    IF bbox1 = <<>> \/ bbox2 = <<>>
    THEN <<0, 1>>
    ELSE LET x1_1 == bbox1[1]
             y1_1 == bbox1[2]
             x2_1 == x1_1 + bbox1[3]
             y2_1 == y1_1 + bbox1[4]
             x1_2 == bbox2[1]
             y1_2 == bbox2[2]
             x2_2 == x1_2 + bbox2[3]
             y2_2 == y1_2 + bbox2[4]
             x1_inter == Max(x1_1, x1_2)
             y1_inter == Max(y1_1, y1_2)
             x2_inter == Min(x2_1, x2_2)
             y2_inter == Min(y2_1, y2_2)
             intersection == (x2_inter - x1_inter) * (y2_inter - y1_inter)
             area1 == bbox1[3] * bbox1[4]
             area2 == bbox2[3] * bbox2[4]
             union == UnionArea(area1, area2, intersection)
         IN  IF NoIntersection(x1_inter, y1_inter, x2_inter, y2_inter)
             THEN <<0, 1>>
             ELSE IF union > 0 THEN <<intersection, union>> ELSE <<0, 1>>

\* The filter of line 320: ann stays in sorted_annotations.
SurvivesUpToThreshold(best, ann, threshold) ==
    FracLessEq(calculate_iou_coco_format(BBoxOf(best), BBoxOf(ann)), threshold)
\* The filter applied within a category only: a detection of another
\* category than best always stays.
SurvivesWithinCategory(best, ann, threshold) ==
    \/ FracLess(calculate_iou_coco_format(BBoxOf(best), BBoxOf(ann)), threshold)
    \/ /\ "category_id" \in DOMAIN best
       /\ "category_id" \in DOMAIN ann
       /\ best.category_id # ann.category_id
Survives(best, ann, threshold) ==
    FracLess(calculate_iou_coco_format(BBoxOf(best), BBoxOf(ann)), threshold)

\* A sort by descending key that puts equal keys in reverse order of arrival.
InsertByScoreLastFirst(sorted, ann) ==
    LET n == Cardinality({i \in 1..Len(sorted) :
                             ScoreKey(sorted[i]) > ScoreKey(ann)})
    IN  SubSeq(sorted, 1, n) \o <<ann>> \o SubSeq(sorted, n + 1, Len(sorted))

\* One step of a stable sort by descending key: ann goes behind every
\* element whose key is at least its own.
InsertByScore(sorted, ann) ==
    LET n == Cardinality({i \in 1..Len(sorted) :
                             ScoreKey(sorted[i]) >= ScoreKey(ann)})
    IN  SubSeq(sorted, 1, n) \o <<ann>> \o SubSeq(sorted, n + 1, Len(sorted))

\* sorted(annotations, key=lambda x: x.get('score', 0), reverse=True):
\* descending by key, equal keys in their original order.
RECURSIVE SortedByScore(_)
SortedByScore(anns) ==
    IF anns = <<>>
    THEN <<>>
    ELSE InsertByScore(SortedByScore(SubSeq(anns, 1, Len(anns) - 1)),
                       anns[Len(anns)])

\* The while loop of lines 312-321.
RECURSIVE NmsLoop(_, _, _)
NmsLoop(sorted_annotations, kept, threshold) ==
    IF sorted_annotations = <<>>
    THEN kept
    ELSE LET best == Head(sorted_annotations)
             StaysIn(ann) == Survives(best, ann, threshold)
         IN  NmsLoop(SelectSeq(Tail(sorted_annotations), StaysIn),
                     Append(kept, best), threshold)

apply_nms_coco_format(anns, threshold) ==
    IF anns = <<>> THEN <<>> ELSE NmsLoop(SortedByScore(anns), <<>>, threshold)

\* The inputs of the NMS runs: boxes that overlap with IoU 4/5, 1/2, 2/5
\* and 1/6, that only touch, an empty bbox; scores in tenths, or none.
BoxA == <<0, 0, 4, 1>>
BoxB == <<0, 0, 5, 1>>
NmsBoxes == {BoxA, BoxB, <<0, 0, 2, 1>>, <<4, 0, 2, 1>>, <<>>}
NmsScores == {7, 9}
NmsThresholds == {<<1, 2>>, <<4, 5>>, <<1, 1>>}
NmsDetections ==
    {[bbox |-> b, score |-> s] : b \in NmsBoxes, s \in NmsScores}
        \cup {[bbox |-> b] : b \in NmsBoxes}

\* A detection with the id its place in the list gives it.
WithId(d, i) ==
    IF "score" \in DOMAIN d
    THEN [id |-> i, bbox |-> d.bbox, score |-> d.score]
    ELSE [id |-> i, bbox |-> d.bbox]

ApplyNms ==
    /\ pc = "apply_nms"
    /\ keep' = apply_nms_coco_format(annotations, iou_threshold)
    /\ pc' = "nms_returned"
    /\ UNCHANGED <<formatVars, authVars, iouVars, convVars, entry,
                 tilerVars, splitVars, tile_pos, tile_predictions,
                   combined, annotations, keep_again>>

\* A second call, on the list the first one returned.
ApplyNmsAgain ==
    /\ pc = "nms_returned"
    /\ keep_again' = apply_nms_coco_format(keep, iou_threshold)
    /\ pc' = "nms_returned_again"
    /\ UNCHANGED <<formatVars, authVars, iouVars, convVars, entry,
                 tilerVars, splitVars, tile_pos, tile_predictions,
                   combined, annotations, keep>>

NextNms == ApplyNms \/ ApplyNmsAgain

InitNms ==
    /\ entry = "apply_nms_coco_format"
    /\ pc = "apply_nms"
    /\ tile_width = 1
    /\ tile_height = 1
    /\ overlap = 0
    /\ iou_threshold \in NmsThresholds
    /\ width = 1
    /\ height = 1
    /\ x = 0
    /\ y = 0
    /\ tile_index = 0
    /\ tiles = <<>>
    /\ tile_pos = 0
    /\ tile_predictions = <<>>
    /\ combined = NoDocument
    /\ \E n \in 0..MaxNmsLen : \E f \in [1..n -> NmsDetections] :
          annotations = [i \in 1..n |-> WithId(f[i], i)]
    /\ keep = <<>>
    /\ keep_again = <<>>
    /\ iou_bbox1 = <<>>
    /\ iou_bbox2 = <<>>
    /\ iou = NoResult
    /\ native = NoResult
    /\ coco = NoResult
    /\ restored = NoResult
    /\ AuthUnused
    /\ FormatterUnused

SpecNms == InitNms /\ [][NextNms]_vars

(***************************************************************************)
(* ImageTiler.combine_predictions                                          *)
(***************************************************************************)
MaxAnnsPerTile == 1    \* a tile document holds at most this many annotations

\* Python's order on str, on names given as sequences of character codes.
RECURSIVE LexLess(_, _)
LexLess(a, b) ==
    IF a = <<>> THEN b # <<>>
    ELSE IF b = <<>> THEN FALSE
    ELSE IF a[1] < b[1] THEN TRUE
    ELSE IF a[1] > b[1] THEN FALSE
    ELSE LexLess(Tail(a), Tail(b))

CocoDataOf(pred) == pred.coco_data

\* Lines 214-217 for one tile: all_categories[name] = cat.copy() for every
\* name not seen yet.  all_categories is kept in insertion order, the order
\* in which .items() yields it.
RECURSIVE AddCategories(_, _)
AddCategories(all_categories, cats) ==
    IF cats = <<>>
    THEN all_categories
    ELSE LET cat == Head(cats)
             seen == \E k \in 1..Len(all_categories) :
                         all_categories[k].name = cat.name
         IN  AddCategories(IF seen THEN all_categories
                                   ELSE Append(all_categories, cat),
                           Tail(cats))

RECURSIVE AllCategories(_)
AllCategories(preds) ==
    IF preds = <<>>
    THEN <<>>
    ELSE AddCategories(AllCategories(SubSeq(preds, 1, Len(preds) - 1)),
                       CocoDataOf(preds[Len(preds)]).categories)

\* Lines 220-221: the metadata of the first tile that has a non-empty one.
RECURSIVE FirstMetadata(_)
FirstMetadata(preds) ==
    IF preds = <<>>
    THEN <<>>
    ELSE LET coco_data == CocoDataOf(Head(preds))
         IN  IF "metadata" \in DOMAIN coco_data /\ coco_data.metadata # <<>>
             THEN coco_data.metadata
             ELSE FirstMetadata(Tail(preds))

\* The same with the x offset only: bbox[1] is left in tile coordinates.
AdjustedAnnotationsXOnly(pred, annotation_id) ==
    LET anns == CocoDataOf(pred).annotations
    IN  [k \in 1..Len(anns) |->
            [anns[k] EXCEPT
                !.bbox = <<anns[k].bbox[1] + pred.x_offset,
                           anns[k].bbox[2],
                           anns[k].bbox[3],
                           anns[k].bbox[4]>>,
                !.id = annotation_id + k - 1]]
\* Lines 224-235 for one tile: each annotation copied, its bbox moved by
\* the tile's offsets, its id the running annotation_id.
AdjustedAnnotations(pred, annotation_id) ==
    LET anns == CocoDataOf(pred).annotations
    IN  [k \in 1..Len(anns) |->
            [anns[k] EXCEPT
                !.bbox = <<anns[k].bbox[1] + pred.x_offset,
                           anns[k].bbox[2] + pred.y_offset,
                           anns[k].bbox[3],
                           anns[k].bbox[4]>>,
                !.id = annotation_id + k - 1]]

RECURSIVE AllAnnotations(_)
AllAnnotations(preds) ==
    IF preds = <<>>
    THEN <<>>
    ELSE LET front == AllAnnotations(SubSeq(preds, 1, Len(preds) - 1))
         IN  front \o AdjustedAnnotations(preds[Len(preds)], Len(front) + 1)

\* The ids given while collecting (line 234) kept as they are.
RenumberedNever(anns) == anns
\* Lines 242-243.
Renumbered(anns) == [k \in 1..Len(anns) |-> [anns[k] EXCEPT !.id = k]]

\* One step of sorted(all_categories.items()): the names are distinct, so
\* the order is the order of the names.
InsertByName(sorted, cat) ==
    LET n == Cardinality({i \in 1..Len(sorted) : LexLess(sorted[i].name, cat.name)})
    IN  SubSeq(sorted, 1, n) \o <<cat>> \o SubSeq(sorted, n + 1, Len(sorted))

RECURSIVE SortedByName(_)
SortedByName(all_categories) ==
    IF all_categories = <<>>
    THEN <<>>
    ELSE InsertByName(SortedByName(SubSeq(all_categories, 1, Len(all_categories) - 1)),
                      all_categories[Len(all_categories)])

\* The categories in the order they were first seen.
CategoryOrderFirstSeen(all_categories) == all_categories
\* The order in which lines 248-253 number the categories.
CategoryOrder(all_categories) == SortedByName(all_categories)

\* Lines 246-253.
CategoryList(all_categories) ==
    LET sorted == CategoryOrder(all_categories)
    IN  [idx \in 1..Len(sorted) |-> [id |-> idx, name |-> sorted[idx].name]]

\* category_name_to_id[cat_name].
CategoryNameToId(all_categories, cat_name) ==
    LET category_list == CategoryList(all_categories)
    IN  (CHOOSE c \in {category_list[k] : k \in 1..Len(category_list)} :
            c.name = cat_name).id

\* Lines 256-265 for one annotation: the first entry of all_categories, in
\* insertion order, whose tile-local id is the annotation's category_id
\* gives the name; without one (or with an empty name) nothing changes.
WithUnifiedCategory(ann, all_categories) ==
    LET old_cat_id == ann.category_id
        hits == {k \in 1..Len(all_categories) : all_categories[k].id = old_cat_id}
    IN  IF hits = {}
        THEN ann
        ELSE LET first == CHOOSE k \in hits : \A j \in hits : k <= j
                 cat_name == all_categories[first].name
             IN  IF cat_name # <<>>
                 THEN [ann EXCEPT !.category_id =
                                     CategoryNameToId(all_categories, cat_name)]
                 ELSE ann

\* The first tile's metadata given the last word: {"num_tiles": ...,
\* "total_detections": ..., **metadata}.
CombinedMetadataTileWins(metadata, preds, all_annotations) ==
    [key \in DOMAIN metadata \cup {"num_tiles", "total_detections"} |->
        IF key \in DOMAIN metadata THEN metadata[key]
        ELSE IF key = "num_tiles" THEN Len(preds)
        ELSE Len(all_annotations)]
\* Lines 277-281: {**metadata, "num_tiles": len(tile_predictions),
\* "total_detections": len(all_annotations)}.
CombinedMetadata(metadata, preds, all_annotations) ==
    [key \in DOMAIN metadata \cup {"num_tiles", "total_detections"} |->
        IF key = "num_tiles" THEN Len(preds)
        ELSE IF key = "total_detections" THEN Len(all_annotations)
        ELSE metadata[key]]

\* combine_predictions(tile_predictions, original_size, iou_threshold).
combine_predictions(preds, original_size, threshold) ==
    LET all_categories == AllCategories(preds)
        metadata == FirstMetadata(preds)
        collected == AllAnnotations(preds)
        kept == IF collected # <<>>
                THEN apply_nms_coco_format(collected, threshold)
                ELSE collected
        renumbered == Renumbered(kept)
        all_annotations ==
            [k \in 1..Len(renumbered) |->
                WithUnifiedCategory(renumbered[k], all_categories)]
    IN  [returned |-> TRUE,
         images |-> <<[id |-> 1,
                       width |-> original_size[1],
                       height |-> original_size[2],
                       file_name |-> ""]>>,
         annotations |-> all_annotations,
         categories |-> CategoryList(all_categories),
         metadata |-> CombinedMetadata(metadata, preds, all_annotations)]

\* Line 226: bbox is a new list (ann['bbox'].copy() or list(...)), so
\* bbox[0] += x_offset does not write into the tile's annotation.
BBoxIsCopy == TRUE

\* adjusted_ann = ann: the tile's own annotation object is adjusted.
AdjustedAnnIsSameObject == FALSE
\* Line 231: adjusted_ann = ann.copy(), a new dict, so the writes of lines
\* 232-233, 243 and 265 do not reach the tile's annotation.
AdjustedAnnIsCopy == TRUE

\* The tile results as the call leaves them.  The only writes of
\* combine_predictions go to bbox (lines 227-228) and to adjusted_ann
\* (lines 232-233, 243, 265); a tile annotation changes if and only if one
\* of these objects is the tile's own.  Categories and metadata are
\* copied (lines 217, 221) and never written.
TilePredictionsAfter(preds, original_size, threshold) ==
    LET returned == combine_predictions(preds, original_size, threshold).annotations
        \* The object appended at line 234 for annotation k of tile p, as
        \* the call leaves it.
        adjusted(p, k) ==
            LET annotation_id == Len(AllAnnotations(SubSeq(preds, 1, p - 1))) + 1
                collected == AdjustedAnnotations(preds[p], annotation_id)[k]
                kept == {i \in 1..Len(returned) :
                            "extra" \in DOMAIN returned[i]
                            /\ "extra" \in DOMAIN collected
                            /\ returned[i].extra = collected.extra}
            IN  IF kept # {} THEN returned[CHOOSE i \in kept : TRUE]
                ELSE collected
        after(p, k) ==
            LET ann == CocoDataOf(preds[p]).annotations[k]
                object == IF AdjustedAnnIsCopy THEN ann ELSE adjusted(p, k)
            IN  IF BBoxIsCopy \/ ~AdjustedAnnIsCopy
                THEN object
                ELSE [object EXCEPT !.bbox = adjusted(p, k).bbox]
    IN  [p \in 1..Len(preds) |->
            [preds[p] EXCEPT !.coco_data.annotations =
                [k \in 1..Len(CocoDataOf(preds[p]).annotations) |-> after(p, k)]]]

\* The inputs of the combine runs.  Names "b" and "ab" (the second sorts
\* first); tile-local category ids 1 and 2; a tile's categories have
\* distinct ids and distinct names, as a converter produces them, and its
\* annotations refer to them.
CategoryNames == {<<98>>, <<97, 98>>}
CategoryIds == {1, 2}
Categories == {[id |-> i, name |-> nm] : i \in CategoryIds, nm \in CategoryNames}
CategoryLists ==
    {<<>>} \cup {<<c>> : c \in Categories}
           \cup {cd \in Categories \X Categories :
                    cd[1].id # cd[2].id /\ cd[1].name # cd[2].name}
CombineBox == <<0, 0, 2, 2>>
CombineScores == {7, 9}
TileOffsets == {<<0, 0>>, <<1, 1>>}
TileMetadata == [dataset_id |-> 4, num_tiles |-> 0, total_detections |-> 0]

AnnotationsOver(cats) ==
    {[id |-> 0, category_id |-> cats[k].id, bbox |-> CombineBox, score |-> sc,
      extra |-> <<0, 0>>] : k \in 1..Len(cats), sc \in CombineScores}
AnnotationLists(cats) ==
    UNION {[1..n -> AnnotationsOver(cats)] : n \in 0..MaxAnnsPerTile}
CocoDocuments ==
    UNION {{[categories |-> cats, annotations |-> anns] : anns \in AnnotationLists(cats)}
           \cup {[categories |-> cats, annotations |-> anns, metadata |-> TileMetadata] :
                    anns \in AnnotationLists(cats)}
           : cats \in CategoryLists}
TileResults ==
    {[coco_data |-> doc, x_offset |-> off[1], y_offset |-> off[2]] :
        doc \in CocoDocuments, off \in TileOffsets}
\* No tile, one tile, or a pair of tiles.
TileResultLists ==
    {<<>>} \cup {<<t>> : t \in TileResults} \cup (TileResults \X TileResults)

\* The document with its annotations numbered 1.. and tagged, in the opaque
\* field extra, with the place <<tile, annotation>> they come from.
TaggedDocument(doc, p) ==
    [doc EXCEPT !.annotations =
        [q \in 1..Len(doc.annotations) |->
            [doc.annotations[q] EXCEPT !.id = q, !.extra = <<p, q>>]]]
TaggedResult(pred, p) == [pred EXCEPT !.coco_data = TaggedDocument(pred.coco_data, p)]

CombinePredictions ==
    /\ pc = "combine_predictions"
    /\ combined' = combine_predictions(tile_predictions, <<width, height>>, iou_threshold)
    /\ tile_predictions' =
          TilePredictionsAfter(tile_predictions, <<width, height>>, iou_threshold)
    /\ pc' = "combine_returned"
    /\ UNCHANGED <<formatVars, authVars, iouVars, convVars, entry,
                 tilerVars, splitVars, tile_pos, nmsVars>>

NextCombine == CombinePredictions

InitCombine ==
    /\ entry = "combine_predictions"
    /\ pc = "combine_predictions"
    /\ tile_width = 2
    /\ tile_height = 2
    /\ overlap = 1
    /\ iou_threshold = <<1, 2>>
    /\ width = 3
    /\ height = 3
    /\ x = 0
    /\ y = 0
    /\ tile_index = 0
    /\ tiles = <<>>
    /\ tile_pos = 0
    /\ \E f \in TileResultLists :
          tile_predictions = [p \in 1..Len(f) |-> TaggedResult(f[p], p)]
    /\ combined = NoDocument
    /\ annotations = <<>>
    /\ keep = <<>>
    /\ keep_again = <<>>
    /\ iou_bbox1 = <<>>
    /\ iou_bbox2 = <<>>
    /\ iou = NoResult
    /\ native = NoResult
    /\ coco = NoResult
    /\ restored = NoResult
    /\ AuthUnused
    /\ FormatterUnused

SpecCombine == InitCombine /\ [][NextCombine]_vars

(***************************************************************************)
(* ImageTiler.predict_tiled                                                *)
(***************************************************************************)
MaxPredictImage == 2   \* predict_tiled: image and tile sizes range over 1..this

\* What predictor.predict_from_bytes may return for a tile: a document
\* without detections, or one with a single detection.
PredictorDocuments ==
    {[categories |-> <<>>, annotations |-> <<>>, metadata |-> TileMetadata],
     [categories |-> <<[id |-> 1, name |-> <<98>>]>>,
      annotations |-> <<[id |-> 1, category_id |-> 1, bbox |-> CombineBox,
                         score |-> 9, extra |-> <<0, 0>>]>>,
      metadata |-> TileMetadata]}

\* The same, but every document is stored with the first tile's offsets.
PredictorReturnsAtFirstOffsets ==
    /\ pc = "for_tile"
    /\ tile_pos < Len(tiles)
    /\ \E coco_data \in PredictorDocuments :
          tile_predictions' =
              Append(tile_predictions,
                     [coco_data |-> TaggedDocument(coco_data, tile_pos + 1),
                      x_offset |-> tiles[1].x_offset,
                      y_offset |-> tiles[1].y_offset])
    /\ tile_pos' = tile_pos + 1
    /\ UNCHANGED <<formatVars, authVars, iouVars, convVars, entry,
                 pc, tilerVars, splitVars, combined, nmsVars>>

\* Lines 153-168: the predictor returns a document for the next tile,
\* which is stored with the tile's offsets.
PredictorReturns ==
    /\ pc = "for_tile"
    /\ tile_pos < Len(tiles)
    /\ \E coco_data \in PredictorDocuments :
          tile_predictions' =
              Append(tile_predictions,
                     [coco_data |-> TaggedDocument(coco_data, tile_pos + 1),
                      x_offset |-> tiles[tile_pos + 1].x_offset,
                      y_offset |-> tiles[tile_pos + 1].y_offset])
    /\ tile_pos' = tile_pos + 1
    /\ UNCHANGED <<formatVars, authVars, iouVars, convVars, entry,
                 pc, tilerVars, splitVars, combined, nmsVars>>

\* A predictor failure that is swallowed: the tile is skipped.
PredictorRaisesAndIsSkipped ==
    /\ pc = "for_tile"
    /\ tile_pos < Len(tiles)
    /\ tile_pos' = tile_pos + 1
    /\ UNCHANGED <<formatVars, authVars, iouVars, convVars, entry,
                 pc, tilerVars, splitVars, tile_predictions, combined, nmsVars>>

\* Lines 157-161: predict_from_bytes raises; nothing in predict_tiled
\* catches it, so the call ends with the exception.
PredictorRaises ==
    /\ pc = "for_tile"
    /\ tile_pos < Len(tiles)
    /\ pc' = "raised"
    /\ UNCHANGED <<formatVars, authVars, iouVars, convVars, entry,
                 tilerVars, splitVars, tile_pos, tile_predictions,
                   combined, nmsVars>>

\* Lines 170-177: after the loop, combine and return.
PredictCombine ==
    /\ pc = "for_tile"
    /\ tile_pos = Len(tiles)
    /\ combined' = combine_predictions(tile_predictions, <<width, height>>, iou_threshold)
    /\ tile_predictions' =
          TilePredictionsAfter(tile_predictions, <<width, height>>, iou_threshold)
    /\ pc' = "predict_returned"
    /\ UNCHANGED <<formatVars, authVars, iouVars, convVars, entry,
                 tilerVars, splitVars, tile_pos, nmsVars>>

NextPredict ==
    \/ SplitBegin
    \/ SplitWhileY
    \/ SplitWhileX
    \/ SplitAfterX
    \/ PredictorReturns
    \/ PredictorRaises
    \/ PredictCombine

\* A call of predict_tiled with a valid configuration.
InitPredict ==
    /\ entry = "predict_tiled"
    /\ pc = "split_image"
    /\ tile_width \in 1..MaxPredictImage
    /\ tile_height \in 1..MaxPredictImage
    /\ overlap \in 0..1
    /\ ValidTileConfig
    /\ iou_threshold = <<1, 2>>
    /\ width \in 1..MaxPredictImage
    /\ height \in 1..MaxPredictImage
    /\ x = 0
    /\ y = 0
    /\ tile_index = 0
    /\ tiles = <<>>
    /\ tile_pos = 0
    /\ tile_predictions = <<>>
    /\ combined = NoDocument
    /\ annotations = <<>>
    /\ keep = <<>>
    /\ keep_again = <<>>
    /\ iou_bbox1 = <<>>
    /\ iou_bbox2 = <<>>
    /\ iou = NoResult
    /\ native = NoResult
    /\ coco = NoResult
    /\ restored = NoResult
    /\ AuthUnused
    /\ FormatterUnused

SpecPredict == InitPredict /\ [][NextPredict]_vars

(***************************************************************************)
(* _calculate_iou_coco_format called on its own                            *)
(***************************************************************************)
MaxIouCoord == 2    \* a box starts at 0..MaxIouCoord on each axis
MaxIouSize == 2     \* a box's width and height are at most this

\* The arguments: boxes with negative, zero and positive widths and
\* heights, and the empty list of a missing bbox.
IouBoxes ==
    {<<>>} \cup ((0..MaxIouCoord) \X (0..MaxIouCoord)
                   \X (-1..MaxIouSize) \X (-1..MaxIouSize))

\* The function is called on the two boxes in both orders and on each box
\* with itself.
CalculateIou ==
    /\ pc = "calculate_iou"
    /\ iou' = [returned |-> TRUE,
               value |-> calculate_iou_coco_format(iou_bbox1, iou_bbox2),
               swapped |-> calculate_iou_coco_format(iou_bbox2, iou_bbox1),
               self1 |-> calculate_iou_coco_format(iou_bbox1, iou_bbox1),
               self2 |-> calculate_iou_coco_format(iou_bbox2, iou_bbox2)]
    /\ pc' = "iou_returned"
    /\ UNCHANGED <<formatVars, authVars, convVars, entry, tilerVars, splitVars, tile_pos,
                   tile_predictions, combined, nmsVars, iou_bbox1, iou_bbox2>>

NextIou == CalculateIou

InitIou ==
    /\ entry = "calculate_iou"
    /\ pc = "calculate_iou"
    /\ tile_width = 2
    /\ tile_height = 2
    /\ overlap = 1
    /\ iou_threshold = <<1, 2>>
    /\ width = 0
    /\ height = 0
    /\ x = 0
    /\ y = 0
    /\ tile_index = 0
    /\ tiles = <<>>
    /\ tile_pos = 0
    /\ tile_predictions = <<>>
    /\ combined = NoDocument
    /\ annotations = <<>>
    /\ keep = <<>>
    /\ keep_again = <<>>
    /\ iou_bbox1 \in IouBoxes
    /\ iou_bbox2 \in IouBoxes
    /\ iou = NoResult
    /\ native = NoResult
    /\ coco = NoResult
    /\ restored = NoResult
    /\ AuthUnused
    /\ FormatterUnused

SpecIou == InitIou /\ [][NextIou]_vars

(***************************************************************************)
(* FormDataFormatConverter (src/src/cv_ninja/predictors/formats.py)        *)
(*                                                                         *)
(* A dict is a record; a key the dict lacks is a field the record lacks.   *)
(***************************************************************************)
MaxResultLen == 2    \* a FormData result list holds at most this many entries

\* d.get(key, default).
Get(d, key, default) == IF key \in DOMAIN d THEN d[key] ELSE default

\* Python's None, and the str 'unknown'.
None == "None"
Unknown == <<117, 110, 107, 110, 111, 119, 110>>

\* What a call that ended with an exception leaves instead of a result.
Raised(exception) == [returned |-> FALSE, raised |-> exception]

\* Lines 108-114: the entries the loop treats as detections.
IsBoxItem(item) == "RegisterMatrix" \notin DOMAIN item /\ "Box" \in DOMAIN item

\* Lines 130-136: box['X'], box['Y'], box['Width'] and box['Height'] are
\* subscripted, which raises KeyError for a key the Box lacks.
BoxKeyError(item) == ~({"X", "Y", "Width", "Height"} \subseteq DOMAIN item.Box)

\* Lines 116-117.
ItemLabel(item) == Get(item, "label", Unknown)
ItemScore(item) == Get(item, "Score", 0)

\* The categories listed in the order of their names.
RECURSIVE FormDataCategoriesByName(_)
FormDataCategoriesByName(detections) ==
    IF detections = <<>>
    THEN <<>>
    ELSE LET front == FormDataCategoriesByName(
                          SubSeq(detections, 1, Len(detections) - 1))
             label == ItemLabel(detections[Len(detections)])
         IN  IF \E k \in 1..Len(front) : front[k].name = label
             THEN front
             ELSE LET sorted == InsertByName(front, [id |-> 0, name |-> label])
                  IN  [k \in 1..Len(sorted) |-> [id |-> k, name |-> sorted[k].name]]
\* Lines 120-127 over the detections: a label not in category_map gets the
\* next category_counter and is appended to the categories.
RECURSIVE FormDataCategories(_)
FormDataCategories(detections) ==
    IF detections = <<>>
    THEN <<>>
    ELSE LET front == FormDataCategories(
                          SubSeq(detections, 1, Len(detections) - 1))
             label == ItemLabel(detections[Len(detections)])
         IN  IF \E k \in 1..Len(front) : front[k].name = label
             THEN front
             ELSE Append(front, [id |-> Len(front) + 1, name |-> label])

\* category_map[label].
FormDataCategoryId(categories, label) ==
    (CHOOSE c \in {categories[k] : k \in 1..Len(categories)} : c.name = label).id

\* The annotation without the 'angle' key, whatever the Box's Angle.
FormDataAnnotationNoAngle(item, annotation_id, image_id, category_id) ==
    LET box == item.Box
    IN  [id |-> annotation_id,
         image_id |-> image_id,
         category_id |-> category_id,
         bbox |-> <<box.X, box.Y, box.Width, box.Height>>,
         area |-> box.Width * box.Height,
         score |-> ItemScore(item),
         iscrowd |-> 0]
\* Lines 130-151: the annotation of one detection.
FormDataAnnotation(item, annotation_id, image_id, category_id) ==
    LET box == item.Box
        annotation == [id |-> annotation_id,
                       image_id |-> image_id,
                       category_id |-> category_id,
                       bbox |-> <<box.X, box.Y, box.Width, box.Height>>,
                       area |-> box.Width * box.Height,
                       score |-> ItemScore(item),
                       iscrowd |-> 0]
    IN  IF Get(box, "Angle", 0) # 0
        THEN [key \in DOMAIN annotation \cup {"angle"} |->
                 IF key = "angle" THEN box.Angle ELSE annotation[key]]
        ELSE annotation

\* FormDataFormatConverter.to_coco(predictions, image_id), file_name "".
FormData_to_coco(predictions, image_id) ==
    LET result_list == Get(predictions, "result", <<>>)
        detections == SelectSeq(result_list, IsBoxItem)
        categories == FormDataCategories(detections)
        coco_annotations ==
            [k \in 1..Len(detections) |->
                FormDataAnnotation(
                    detections[k], k, image_id,
                    FormDataCategoryId(categories, ItemLabel(detections[k])))]
    IN  IF \E k \in 1..Len(detections) : BoxKeyError(detections[k])
        THEN Raised("KeyError")
        ELSE [returned |-> TRUE,
              images |-> <<[id |-> image_id,
                            width |-> Get(predictions, "image_width", 0),
                            height |-> Get(predictions, "image_height", 0),
                            file_name |-> ""]>>,
              annotations |-> coco_annotations,
              categories |-> categories,
              metadata |->
                  [dataset_id |-> Get(predictions, "dataset_id", None),
                   num_tiles |-> Get(predictions, "num_tiles", None),
                   total_detections |-> Len(coco_annotations)]]

\* Lines 180-182 and 206: category_map.get(category_id, 'unknown'), where a
\* later category of the same id has replaced an earlier one.
FormDataLabelOf(categories, category_id) ==
    LET hits == {k \in 1..Len(categories) : categories[k].id = category_id}
    IN  IF hits = {}
        THEN Unknown
        ELSE categories[CHOOSE k \in hits : \A j \in hits : j <= k].name

RegisterMatrixItem ==
    [RegisterMatrix |-> <<<<1, 0, 0>>, <<0, 1, 0>>, <<0, 0, 1>>>>]

\* Lines 194-209: the result entry of one annotation.
FormDataBoxItem(ann, categories) ==
    [Box |-> [X |-> ann.bbox[1],
              Y |-> ann.bbox[2],
              Width |-> ann.bbox[3],
              Height |-> ann.bbox[4],
              Angle |-> Get(ann, "angle", 0)],
     Score |-> Get(ann, "score", 0),
     label |-> FormDataLabelOf(categories, ann.category_id)]

\* FormDataFormatConverter.from_coco(coco_data).
FormData_from_coco(coco_data) ==
    LET images == Get(coco_data, "images", <<>>)
        image_info == IF images # <<>> THEN images[1] ELSE <<>>
        categories == Get(coco_data, "categories", <<>>)
        anns == Get(coco_data, "annotations", <<>>)
        metadata == Get(coco_data, "metadata", <<>>)
        result_list ==
            <<RegisterMatrixItem>>
                \o [k \in 1..Len(anns) |-> FormDataBoxItem(anns[k], categories)]
        formdata == [dataset_id |-> Get(metadata, "dataset_id", None),
                     result |-> result_list,
                     image_width |-> Get(image_info, "width", 0),
                     image_height |-> Get(image_info, "height", 0)]
        optional == {"num_tiles", "total_detections"} \cap DOMAIN metadata
    IN  [key \in DOMAIN formdata \cup optional |->
            IF key \in optional THEN metadata[key] ELSE formdata[key]]

\* The payloads of the FormData runs.  Labels "a" and "b"; a Box with
\* Angle 0, one with a non-zero Angle, one without the Angle key and one
\* that lacks its Width; an entry may lack its Score or its label.
FormDataLabels == {<<97>>, <<98>>}
FormDataScores == {9}
FormDataBoxes ==
    {[X |-> 10, Y |-> 10, Width |-> 5, Height |-> 5, Angle |-> 0],
     [X |-> 0, Y |-> 20, Width |-> 4, Height |-> 3, Angle |-> 30],
     [X |-> 10, Y |-> 10, Width |-> 5, Height |-> 5],
     [X |-> 10, Y |-> 10, Height |-> 5, Angle |-> 0]}
FormDataItems ==
    {RegisterMatrixItem}
        \cup {[Box |-> box, Score |-> score, label |-> label] :
                 box \in FormDataBoxes, score \in FormDataScores,
                 label \in FormDataLabels}
        \cup {[Box |-> box, label |-> label] :
                 box \in FormDataBoxes, label \in FormDataLabels}
        \cup {[Box |-> box, Score |-> score] :
                 box \in FormDataBoxes, score \in FormDataScores}
        \cup {[Box |-> box] : box \in FormDataBoxes}
FormDataResultLists == UNION {[1..n -> FormDataItems] : n \in 0..MaxResultLen}
FormDataPayloads ==
    {[dataset_id |-> 4, image_width |-> 100, image_height |-> 80]}
        \cup {[dataset_id |-> 4, result |-> result_list,
               image_width |-> 100, image_height |-> 80] :
                 result_list \in FormDataResultLists}

\* predict_from_bytes hands the service's payload to to_coco with image_id 1.
FormDataToCoco ==
    /\ pc = "to_coco"
    /\ entry = "FormData"
    /\ coco' = FormData_to_coco(native, 1)
    /\ pc' = IF coco'.returned THEN "to_coco_returned" ELSE "raised"
    /\ UNCHANGED <<formatVars, authVars, iouVars, entry, tilerVars, splitVars, tile_pos,
                   tile_predictions, combined, nmsVars, native, restored>>

\* The document is converted back.
FormDataFromCoco ==
    /\ pc = "to_coco_returned"
    /\ entry = "FormData"
    /\ restored' = FormData_from_coco(coco)
    /\ pc' = "from_coco_returned"
    /\ UNCHANGED <<formatVars, authVars, iouVars, entry, tilerVars, splitVars, tile_pos,
                   tile_predictions, combined, nmsVars, native, coco>>

NextFormData ==
    \/ FormDataToCoco
    \/ FormDataFromCoco

\* Everything but the payload, before a converter is called.
InitConverter ==
    /\ pc = "to_coco"
    /\ tile_width = 2
    /\ tile_height = 2
    /\ overlap = 1
    /\ iou_threshold = <<1, 2>>
    /\ width = 0
    /\ height = 0
    /\ x = 0
    /\ y = 0
    /\ tile_index = 0
    /\ tiles = <<>>
    /\ tile_pos = 0
    /\ tile_predictions = <<>>
    /\ combined = NoDocument
    /\ annotations = <<>>
    /\ keep = <<>>
    /\ keep_again = <<>>
    /\ iou_bbox1 = <<>>
    /\ iou_bbox2 = <<>>
    /\ iou = NoResult
    /\ coco = NoResult
    /\ restored = NoResult
    /\ AuthUnused
    /\ FormatterUnused

InitFormData ==
    /\ entry = "FormData"
    /\ native \in FormDataPayloads
    /\ InitConverter

SpecFormData == InitFormData /\ [][NextFormData]_vars

(***************************************************************************)
(* BinaryFormatConverter (src/src/cv_ninja/predictors/formats.py)          *)
(*                                                                         *)
(* A coordinate of a Binary payload is a Python number, an int or a float, *)
(* and the converter does arithmetic on it.  A number is a record          *)
(* [float, value]: an int is exact; a float keeps MantissaBits significant *)
(* bits (53 in Python, scaled down here) and every float operation rounds  *)
(* its exact result to the nearest such value, ties to the even one.       *)
(* A suggestion group that is a list is [list |-> its detections]; one     *)
(* that is a dict is the detection itself.                                 *)
(***************************************************************************)
MaxGroupLen == 1    \* a suggestion group lists at most this many detections

MantissaBits == 3

Abs(n) == IF n < 0 THEN 0 - n ELSE n

\* The spacing of the floats around a magnitude.
RECURSIVE Quantum(_)
Quantum(magnitude) ==
    IF magnitude < 2 ^ MantissaBits THEN 1 ELSE 2 * Quantum(magnitude \div 2)

\* The float nearest to an exact value.
RoundToFloat(exact) ==
    LET magnitude == Abs(exact)
        q == Quantum(magnitude)
        below == (magnitude \div q) * q
        rest == magnitude - below
        nearest == IF 2 * rest < q THEN below
                   ELSE IF 2 * rest > q THEN below + q
                   ELSE IF (below \div q) % 2 = 0 THEN below ELSE below + q
    IN  IF exact < 0 THEN 0 - nearest ELSE nearest

IntNumber(n) == [float |-> FALSE, value |-> n]
FloatNumber(n) == [float |-> TRUE, value |-> RoundToFloat(n)]

\* a - b, a + b, a * b and max(a, b) of Python numbers.
NumberSub(a, b) ==
    IF a.float \/ b.float
    THEN FloatNumber(a.value - b.value) ELSE IntNumber(a.value - b.value)
NumberAdd(a, b) ==
    IF a.float \/ b.float
    THEN FloatNumber(a.value + b.value) ELSE IntNumber(a.value + b.value)
NumberMul(a, b) ==
    IF a.float \/ b.float
    THEN FloatNumber(a.value * b.value) ELSE IntNumber(a.value * b.value)
NumberMax(a, b) == IF b.value > a.value THEN b ELSE a

\* Lines 283-287: the groups flattened into one list of detections.
IsList(suggestion_group) == "list" \in DOMAIN suggestion_group
RECURSIVE Flattened(_)
Flattened(suggestions) ==
    IF suggestions = <<>>
    THEN <<>>
    ELSE LET suggestion_group == Head(suggestions)
         IN  (IF IsList(suggestion_group)
              THEN suggestion_group.list
              ELSE <<suggestion_group>>) \o Flattened(Tail(suggestions))

\* Lines 290-301 for one axis ('x2' or 'y2'), image_width and image_height
\* not being given: the largest such coordinate of a Box, 0 at least.
RECURSIVE MaxCoordinate(_, _)
MaxCoordinate(detections, key) ==
    IF detections = <<>>
    THEN IntNumber(0)
    ELSE LET front == MaxCoordinate(
                          SubSeq(detections, 1, Len(detections) - 1), key)
             det == detections[Len(detections)]
         IN  IF "Box" \in DOMAIN det
             THEN NumberMax(front, Get(det.Box, key, IntNumber(0)))
             ELSE front

\* Lines 321-323: the detections that are converted.
BinaryHasBox(det) == "Box" \in DOMAIN det

\* Lines 326-336 over the converted detections.
RECURSIVE BinaryCategories(_)
BinaryCategories(detections) ==
    IF detections = <<>>
    THEN <<>>
    ELSE LET front == BinaryCategories(
                          SubSeq(detections, 1, Len(detections) - 1))
             label == Get(detections[Len(detections)], "Class", Unknown)
         IN  IF \E k \in 1..Len(front) : front[k].name = label
             THEN front
             ELSE Append(front, [id |-> Len(front) + 1, name |-> label])

\* category_map[label], line 351.
BinaryCategoryId(categories, label) ==
    (CHOOSE c \in {categories[k] : k \in 1..Len(categories)} : c.name = label).id

\* Lines 339-360: the annotation of one detection.
BinaryAnnotation(det, annotation_id, image_id, category_id) ==
    LET box == det.Box
        x1 == Get(box, "x1", IntNumber(0))
        y1 == Get(box, "y1", IntNumber(0))
        x2 == Get(box, "x2", IntNumber(0))
        y2 == Get(box, "y2", IntNumber(0))
        box_width == NumberSub(x2, x1)
        box_height == NumberSub(y2, y1)
        annotation == [id |-> annotation_id,
                       image_id |-> image_id,
                       category_id |-> category_id,
                       bbox |-> <<x1, y1, box_width, box_height>>,
                       area |-> NumberMul(box_width, box_height),
                       score |-> Get(det, "Scores", 0),
                       iscrowd |-> 0]
    IN  IF "Picture_id" \in DOMAIN det
        THEN [key \in DOMAIN annotation \cup {"picture_id"} |->
                 IF key = "picture_id" THEN det.Picture_id ELSE annotation[key]]
        ELSE annotation

\* BinaryFormatConverter.to_coco(predictions, image_id), file_name "",
\* image_width and image_height None.
Binary_to_coco(predictions, image_id) ==
    LET suggestions == Get(predictions, "suggestion", <<[list |-> <<>>]>>)
        detections == Flattened(suggestions)
        converted == SelectSeq(detections, BinaryHasBox)
        categories == BinaryCategories(converted)
        coco_annotations ==
            [k \in 1..Len(converted) |->
                BinaryAnnotation(
                    converted[k], k, image_id,
                    BinaryCategoryId(categories,
                                     Get(converted[k], "Class", Unknown)))]
    IN  [returned |-> TRUE,
         images |-> <<[id |-> image_id,
                       width |-> MaxCoordinate(detections, "x2"),
                       height |-> MaxCoordinate(detections, "y2"),
                       file_name |-> ""]>>,
         annotations |-> coco_annotations,
         categories |-> categories,
         metadata |-> [result_status |-> Get(predictions, "result", None),
                       total_time |-> Get(predictions, "total_time", None),
                       total_detections |-> Len(coco_annotations)]]

\* The detection with the bbox's width and height taken for x2 and y2.
BinaryDetectionSizeAsCorner(ann, categories) ==
    LET bbox == ann.bbox
        detection == [Box |-> [x1 |-> bbox[1], y1 |-> bbox[2],
                               x2 |-> bbox[3], y2 |-> bbox[4]],
                      Class |-> FormDataLabelOf(categories, ann.category_id),
                      Scores |-> Get(ann, "score", 0)]
    IN  IF "picture_id" \in DOMAIN ann
        THEN [key \in DOMAIN detection \cup {"Picture_id"} |->
                 IF key = "Picture_id" THEN ann.picture_id ELSE detection[key]]
        ELSE detection
\* Lines 384-412: the detection of one annotation.
BinaryDetection(ann, categories) ==
    LET bbox == ann.bbox
        x1 == bbox[1]
        y1 == bbox[2]
        x2 == NumberAdd(x1, bbox[3])
        y2 == NumberAdd(y1, bbox[4])
        detection == [Box |-> [x1 |-> x1, y1 |-> y1, x2 |-> x2, y2 |-> y2],
                      Class |-> FormDataLabelOf(categories, ann.category_id),
                      Scores |-> Get(ann, "score", 0)]
    IN  IF "picture_id" \in DOMAIN ann
        THEN [key \in DOMAIN detection \cup {"Picture_id"} |->
                 IF key = "Picture_id" THEN ann.picture_id ELSE detection[key]]
        ELSE detection

\* BinaryFormatConverter.from_coco(coco_data).
Binary_from_coco(coco_data) ==
    LET categories == Get(coco_data, "categories", <<>>)
        anns == Get(coco_data, "annotations", <<>>)
        detections == [k \in 1..Len(anns) |-> BinaryDetection(anns[k], categories)]
        metadata == Get(coco_data, "metadata", <<>>)
        binary_format == [result |-> Get(metadata, "result_status", "success"),
                          suggestion |-> <<[list |-> detections]>>]
    IN  IF "total_time" \in DOMAIN metadata
        THEN [key \in DOMAIN binary_format \cup {"total_time"} |->
                 IF key = "total_time" THEN metadata.total_time
                 ELSE binary_format[key]]
        ELSE binary_format

\* The payloads of the Binary runs.  A Box of int coordinates, three of
\* float coordinates and a Box that lacks its x2; a detection of class "a"
\* with a Picture_id or one of class "b" without, or one without a Box.
BinaryBoxes ==
    {[x1 |-> IntNumber(3), y1 |-> IntNumber(1),
      x2 |-> IntNumber(7), y2 |-> IntNumber(4)],
     [x1 |-> FloatNumber(3), y1 |-> FloatNumber(1),
      x2 |-> FloatNumber(7), y2 |-> FloatNumber(4)],
     [x1 |-> FloatNumber(1), y1 |-> FloatNumber(0),
      x2 |-> FloatNumber(10), y2 |-> FloatNumber(2)],
     [x1 |-> FloatNumber(3), y1 |-> FloatNumber(5),
      x2 |-> FloatNumber(12), y2 |-> FloatNumber(14)],
     [x1 |-> IntNumber(3), y1 |-> IntNumber(1), y2 |-> IntNumber(4)]}
BinaryDetections ==
    {[Class |-> <<97>>, Scores |-> 9]}
        \cup {[Box |-> box, Class |-> <<97>>, Scores |-> 9, Picture_id |-> "1"] :
                 box \in BinaryBoxes}
        \cup {[Box |-> box, Class |-> <<98>>, Scores |-> 7] : box \in BinaryBoxes}
SuggestionGroups ==
    BinaryDetections
        \cup {[list |-> detections] :
                 detections \in UNION {[1..n -> BinaryDetections] :
                                          n \in 0..MaxGroupLen}}
\* No group, one group, or two.
SuggestionLists ==
    {<<>>} \cup {<<g>> : g \in SuggestionGroups}
           \cup (SuggestionGroups \X SuggestionGroups)
BinaryPayloads ==
    {[result |-> "success", total_time |-> 1]}
        \cup {[result |-> "success", suggestion |-> suggestions, total_time |-> 1] :
                 suggestions \in SuggestionLists}

\* predict_from_bytes hands the service's payload to to_coco with image_id 1.
BinaryToCoco ==
    /\ pc = "to_coco"
    /\ entry = "Binary"
    /\ coco' = Binary_to_coco(native, 1)
    /\ pc' = "to_coco_returned"
    /\ UNCHANGED <<formatVars, authVars, iouVars, entry, tilerVars, splitVars, tile_pos,
                   tile_predictions, combined, nmsVars, native, restored>>

\* The document is converted back.
BinaryFromCoco ==
    /\ pc = "to_coco_returned"
    /\ entry = "Binary"
    /\ restored' = Binary_from_coco(coco)
    /\ pc' = "from_coco_returned"
    /\ UNCHANGED <<formatVars, authVars, iouVars, entry, tilerVars, splitVars, tile_pos,
                   tile_predictions, combined, nmsVars, native, coco>>

NextBinary ==
    \/ BinaryToCoco
    \/ BinaryFromCoco

InitBinary ==
    /\ entry = "Binary"
    /\ native \in BinaryPayloads
    /\ InitConverter

SpecBinary == InitBinary /\ [][NextBinary]_vars

(***************************************************************************)
(* Claims about split_image                                                *)
(***************************************************************************)
\* The rectangle of a tile holds pixel (px, py).
TileHolds(t, px, py) ==
    /\ t.x_offset <= px
    /\ px < t.x_offset + t.tile_width
    /\ t.y_offset <= py
    /\ py < t.y_offset + t.tile_height

TileInsideImage(t) ==
    /\ 0 <= t.x_offset
    /\ t.x_offset + t.tile_width <= width
    /\ 0 <= t.y_offset
    /\ t.y_offset + t.tile_height <= height

\* C1: for a valid configuration every emitted tile rectangle lies inside
\* the image, and when split_image returns every pixel of the image lies in
\* at least one tile rectangle.
C1_TilesCoverImage ==
    ValidTileConfig =>
        /\ \A i \in 1..Len(tiles) : TileInsideImage(tiles[i])
        /\ pc = "return" =>
              \A px \in 0..(width - 1) : \A py \in 0..(height - 1) :
                  \E i \in 1..Len(tiles) : TileHolds(tiles[i], px, py)

\* split_image returned a grid of at least two columns and two rows whose
\* last column was pulled back to the right edge, off the stride grid.
C1_Witness ==
    /\ pc = "return"
    /\ ValidTileConfig
    /\ overlap > 0
    /\ width > tile_width
    /\ height > tile_height
    /\ \E i \in 1..Len(tiles) :
          /\ tiles[i].x_offset = width - tile_width
          /\ tiles[i].x_offset % stride_x # 0

\* C3: a configuration with overlap >= tile_width or overlap >= tile_height
\* is rejected before any tile is produced.
C3_InvalidConfigRejected ==
    (overlap >= tile_width \/ overlap >= tile_height) => tiles = <<>>

\* The number of row positions 0, stride_y, 2 * stride_y, ... below height,
\* and of column positions below width (valid configuration: stride >= 1).
RowsOfImage == Cardinality({k \in 0..(height - 1) : k * stride_y < height})
ColumnsOfImage == Cardinality({k \in 0..(width - 1) : k * stride_x < width})

\* C4: for a valid configuration, an axis on which the image is not larger
\* than one tile gets exactly one tile: the number of tiles is the number
\* of tiles along the other axis, and an image that fits in one tile on
\* both axes yields exactly one tile.
C4_OneTileOnSmallAxis ==
    (pc = "return" /\ ValidTileConfig) =>
        /\ width <= tile_width => Len(tiles) = RowsOfImage
        /\ height <= tile_height => Len(tiles) = ColumnsOfImage
        /\ (width <= tile_width /\ height <= tile_height) => Len(tiles) = 1

(***************************************************************************)
(* Claims about _apply_nms_coco_format                                     *)
(***************************************************************************)
IouOf(a, b) == calculate_iou_coco_format(BBoxOf(a), BBoxOf(b))

\* a is ranked before b: higher score, or the same score and earlier in the
\* list that was passed in (a missing score counts as 0).
RankedBefore(a, b) ==
    \/ ScoreKey(a) > ScoreKey(b)
    \/ ScoreKey(a) = ScoreKey(b) /\ a.id < b.id

InSeq(a, seq) == \E k \in 1..Len(seq) : seq[k] = a

\* C5: the list returned holds exactly the greedy set, in rank order: a
\* detection is kept if and only if no kept detection ranked before it has
\* IoU >= iou_threshold with it; scores 9 and 7 (tenths) with IoU 4/5 at
\* threshold 1/2 leave the detection with score 9 alone.
C5_GreedyNms ==
    pc # "apply_nms" =>
        /\ \A k \in 1..Len(keep) : InSeq(keep[k], annotations)
        /\ \A j, k \in 1..Len(keep) : j < k => RankedBefore(keep[j], keep[k])
        /\ \A i \in 1..Len(annotations) :
              InSeq(annotations[i], keep) <=>
                  \A k \in 1..Len(keep) :
                      RankedBefore(keep[k], annotations[i]) =>
                          ~FracLessEq(iou_threshold, IouOf(keep[k], annotations[i]))
        /\ \A hi, lo \in {1, 2} :
              ( /\ hi # lo
                /\ Len(annotations) = 2
                /\ annotations[hi] = [id |-> hi, bbox |-> BoxA, score |-> 9]
                /\ annotations[lo] = [id |-> lo, bbox |-> BoxB, score |-> 7]
                /\ iou_threshold = <<1, 2>> )
              => keep = <<annotations[hi]>>

\* NMS has run on a list where two detections of equal score overlap with
\* an IoU equal to the threshold: the earlier is kept, the later dropped.
C5_Witness ==
    /\ pc = "nms_returned"
    /\ \E i, j \in 1..Len(annotations) :
          /\ i < j
          /\ ScoreKey(annotations[i]) = ScoreKey(annotations[j])
          /\ IouOf(annotations[i], annotations[j]) = iou_threshold
          /\ InSeq(annotations[i], keep)
          /\ ~InSeq(annotations[j], keep)

\* C6: NMS applied to its own output returns the same detections in the
\* same order, and any two kept detections have IoU < iou_threshold.
C6_NmsIdempotent ==
    pc = "nms_returned_again" =>
        /\ keep_again = keep
        /\ \A j, k \in 1..Len(keep) :
              j # k => FracLess(IouOf(keep[j], keep[k]), iou_threshold)

\* NMS has run twice on a list it shortened, keeping two detections of
\* equal score.
C6_Witness ==
    /\ pc = "nms_returned_again"
    /\ Len(keep) < Len(annotations)
    /\ \E j, k \in 1..Len(keep) :
          j < k /\ ScoreKey(keep[j]) = ScoreKey(keep[k])

(***************************************************************************)
(* Claims about combine_predictions                                        *)
(***************************************************************************)
SeqRange(seq) == {seq[k] : k \in 1..Len(seq)}

\* The annotation of the tile results that output annotation o was copied
\* from, and the name its tile's categories give to its category_id.
OriginTile(o) == tile_predictions[o.extra[1]]
OriginAnnotation(o) == CocoDataOf(OriginTile(o)).annotations[o.extra[2]]
OriginName(o) ==
    (CHOOSE c \in SeqRange(CocoDataOf(OriginTile(o)).categories) :
        c.id = OriginAnnotation(o).category_id).name

\* C2: every returned detection's category_id is the unified id of the
\* name that its own tile's categories give to its tile-local category_id.
C2_CategoryIdOfOwnName ==
    pc = "combine_returned" =>
        \A o \in SeqRange(combined.annotations) :
            \E c \in SeqRange(combined.categories) :
                c.name = OriginName(o) /\ c.id = o.category_id

\* The name a document gives to a category id; the empty name if none.
NameOfId(doc, category_id) ==
    IF \E c \in SeqRange(doc.categories) : c.id = category_id
    THEN (CHOOSE c \in SeqRange(doc.categories) : c.id = category_id).name
    ELSE <<>>

\* The detections of a document: bbox, score and category name of each.
DetectionsOf(doc) ==
    {<<o.bbox, o.score, NameOfId(doc, o.category_id)>> : o \in SeqRange(doc.annotations)}

InputAnnotations ==
    UNION {SeqRange(CocoDataOf(tile_predictions[p]).annotations) :
              p \in 1..Len(tile_predictions)}

DistinctScores ==
    \A a, b \in InputAnnotations : a # b => a.score # b.score

TileOrders(n) ==
    {f \in [1..n -> 1..n] : \A i, j \in 1..n : f[i] = f[j] => i = j}

\* C7: when no two detections have the same score, every permutation of
\* the tile results yields the same set of output detections.
C7_OrderIndependent ==
    (pc = "combine_returned" /\ DistinctScores) =>
        \A f \in TileOrders(Len(tile_predictions)) :
            DetectionsOf(combine_predictions(
                [p \in 1..Len(tile_predictions) |-> tile_predictions[f[p]]],
                <<width, height>>, iou_threshold))
            = DetectionsOf(combined)

\* C9: every returned annotation's category_id is the id of an entry of
\* the returned categories (the tile documents themselves satisfy this).
C9_CategoryIdsExist ==
    pc = "combine_returned" =>
        \A o \in SeqRange(combined.annotations) :
            \E c \in SeqRange(combined.categories) : c.id = o.category_id

InputNames ==
    UNION {{c.name : c \in SeqRange(CocoDataOf(tile_predictions[p]).categories)} :
              p \in 1..Len(tile_predictions)}

\* C10: the returned categories hold exactly the names of the tiles'
\* categories, each once, in lexicographic order, with ids 1..n.
C10_CategoriesByName ==
    pc = "combine_returned" =>
        LET cats == combined.categories
        IN  /\ {c.name : c \in SeqRange(cats)} = InputNames
            /\ Len(cats) = Cardinality(InputNames)
            /\ \A k \in 1..Len(cats) : cats[k].id = k
            /\ \A j, k \in 1..Len(cats) : j < k => LexLess(cats[j].name, cats[k].name)

\* Two tiles hold the same name under different tile-local ids, and another
\* name besides; the result lists that name once, "ab" before "b".
C10_Witness ==
    /\ pc = "combine_returned"
    /\ Len(tile_predictions) = 2
    /\ \E c \in SeqRange(CocoDataOf(tile_predictions[1]).categories) :
          \E d \in SeqRange(CocoDataOf(tile_predictions[2]).categories) :
              c.name = d.name /\ c.id # d.id
    /\ Len(combined.categories) = 2
    /\ combined.categories[1].name = <<97, 98>>
    /\ CocoDataOf(tile_predictions[1]).categories[1].name = <<98>>

\* C11: every returned detection is the copy of one detection of one tile
\* result, no two of the same one, with bbox [x + x_offset, y + y_offset,
\* w, h] for that tile's offsets and with the detection's score.
C11_OffsetsOfOwnTile ==
    pc = "combine_returned" =>
        /\ \A o \in SeqRange(combined.annotations) :
              LET a == OriginAnnotation(o)
                  t == OriginTile(o)
              IN  /\ o.bbox = <<a.bbox[1] + t.x_offset, a.bbox[2] + t.y_offset,
                                a.bbox[3], a.bbox[4]>>
                  /\ ("score" \in DOMAIN o) = ("score" \in DOMAIN a)
                  /\ "score" \in DOMAIN a => o.score = a.score
        /\ \A j, k \in 1..Len(combined.annotations) :
              combined.annotations[j].extra = combined.annotations[k].extra
                  => j = k

\* A detection of the second tile, which lies at a non-zero offset, is
\* returned next to one of the first tile.
C11_Witness ==
    /\ pc = "combine_returned"
    /\ Len(combined.annotations) = 2
    /\ \E o \in SeqRange(combined.annotations) :
          /\ o.extra[1] = 2
          /\ OriginTile(o).x_offset > 0
          /\ OriginTile(o).y_offset > 0
          /\ o.bbox # OriginAnnotation(o).bbox

\* C12: the returned annotations are in non-increasing order of score and
\* the annotation at position k has id k, whatever the tile results were,
\* none at all included.
C12_SortedAndDenseIds ==
    pc = "combine_returned" =>
        LET anns == combined.annotations
        IN  /\ \A k \in 1..Len(anns) : anns[k].id = k
            /\ \A j, k \in 1..Len(anns) :
                  j < k => ScoreKey(anns[j]) >= ScoreKey(anns[k])

\* The second tile's detection has the higher score and is returned first,
\* with id 1, before the first tile's.
C12_Witness ==
    /\ pc = "combine_returned"
    /\ Len(combined.annotations) = 2
    /\ combined.annotations[1].extra[1] = 2
    /\ combined.annotations[2].extra[1] = 1
    /\ ScoreKey(combined.annotations[1]) > ScoreKey(combined.annotations[2])

\* C13: the returned document has exactly one image entry, with id 1, the
\* original width and height and an empty file_name, and its metadata give
\* num_tiles as the number of tile results and total_detections as the
\* number of returned annotations, whatever the tiles' metadata said.
C13_ImageAndCounts ==
    pc = "combine_returned" =>
        /\ combined.images =
              <<[id |-> 1, width |-> width, height |-> height, file_name |-> ""]>>
        /\ combined.metadata.num_tiles = Len(tile_predictions)
        /\ combined.metadata.total_detections = Len(combined.annotations)

\* Two tile results, the first with metadata whose num_tiles and
\* total_detections differ from the counts; one of the two detections is
\* suppressed, so one is returned.
C13_Witness ==
    /\ pc = "combine_returned"
    /\ Len(tile_predictions) = 2
    /\ "metadata" \in DOMAIN CocoDataOf(tile_predictions[1])
    /\ CocoDataOf(tile_predictions[1]).metadata # <<>>
    /\ CocoDataOf(tile_predictions[1]).metadata.num_tiles # 2
    /\ CocoDataOf(tile_predictions[1]).metadata.total_detections # 1
    /\ Len(CocoDataOf(tile_predictions[1]).annotations) = 1
    /\ Len(CocoDataOf(tile_predictions[2]).annotations) = 1
    /\ Len(combined.annotations) = 1
    /\ combined.metadata.dataset_id = 4

(***************************************************************************)
(* Claims about predict_tiled                                              *)
(***************************************************************************)
\* C8: when the predictor raises for a tile, predict_tiled ends with that
\* failure and no merged document: combine_predictions has not run, and a
\* document is only ever returned with one prediction for every tile.
C8_TileFailureIsTotal ==
    /\ pc = "raised" => combined = NoDocument
    /\ combined # NoDocument =>
          /\ pc = "predict_returned"
          /\ Len(tile_predictions) = Len(tiles)

\* The predictor raised after it had answered for an earlier tile.
C8_Witness ==
    /\ pc = "raised"
    /\ Len(tile_predictions) >= 1
    /\ Len(tile_predictions) < Len(tiles)

\* One predictor call: it is the call for the next tile in order, and its
\* document is appended together with that tile's offsets.
PredictorCalledForNextTile ==
    /\ pc = "for_tile"
    /\ combined = NoDocument
    /\ tile_pos < Len(tiles)
    /\ tile_pos' = tile_pos + 1
    /\ Len(tile_predictions') = tile_pos'
    /\ SubSeq(tile_predictions', 1, tile_pos) = tile_predictions
    /\ tile_predictions'[tile_pos'].x_offset = tiles[tile_pos'].x_offset
    /\ tile_predictions'[tile_pos'].y_offset = tiles[tile_pos'].y_offset

\* The one call of combine_predictions: no document was returned before,
\* every tile has its prediction, and all of them are combined.
CombineCalledAfterAllTiles ==
    /\ combined = NoDocument
    /\ pc = "for_tile"
    /\ pc' = "predict_returned"
    /\ tile_pos = Len(tiles)
    /\ Len(tile_predictions) = Len(tiles)
    /\ tile_predictions' = tile_predictions
    /\ combined'.metadata.num_tiles = Len(tiles)

\* What any step of predict_tiled may do to the predictions and to the
\* returned document; after the return there is no further step.
PredictTiledStep ==
    /\ (tile_pos' # tile_pos \/ tile_predictions' # tile_predictions)
          => PredictorCalledForNextTile
    /\ combined' # combined => CombineCalledAfterAllTiles
    /\ pc # "predict_returned"

\* C14: a run of predict_tiled calls the predictor once for each tile, in
\* tile order, storing each document with its own tile's x_offset and
\* y_offset, and calls combine_predictions once, after the predictor has
\* returned for every tile; once it has returned nothing more is called.
C14_OncePerTileThenCombine ==
    /\ [][PredictTiledStep]_vars
    /\ [](pc = "predict_returned" =>
            /\ combined # NoDocument
            /\ Len(tile_predictions) = Len(tiles)
            /\ \A p \in 1..Len(tiles) :
                  /\ tile_predictions[p].x_offset = tiles[p].x_offset
                  /\ tile_predictions[p].y_offset = tiles[p].y_offset)

\* predict_tiled has returned for an image of four tiles, the last of them
\* away from the origin on both axes.
C14_Witness ==
    /\ pc = "predict_returned"
    /\ Len(tiles) = 4
    /\ Len(tile_predictions) = 4
    /\ tile_predictions[4].x_offset > 0
    /\ tile_predictions[4].y_offset > 0
    /\ combined # NoDocument

(***************************************************************************)
(* Claims about _calculate_iou_coco_format                                 *)
(***************************************************************************)
\* The unit cells of the plane that a box [x, y, width, height] covers;
\* none when its width or height is not positive.
CellsOf(bbox) ==
    (bbox[1]..(bbox[1] + bbox[3] - 1)) \X (bbox[2]..(bbox[2] + bbox[4] - 1))

PositiveArea(bbox) == bbox[3] > 0 /\ bbox[4] > 0

\* C15: the value is 0 when a box has a width or height that is not
\* positive, and when the boxes share no area (they are apart, or touch
\* along an edge or at a corner only); otherwise it is the shared area
\* divided by (area of the first + area of the second - shared area).
C15_IouValue ==
    (pc = "iou_returned" /\ iou_bbox1 # <<>> /\ iou_bbox2 # <<>>) =>
        LET shared == Cardinality(CellsOf(iou_bbox1) \cap CellsOf(iou_bbox2))
            area_a == Cardinality(CellsOf(iou_bbox1))
            area_b == Cardinality(CellsOf(iou_bbox2))
        IN  IF ~PositiveArea(iou_bbox1) \/ ~PositiveArea(iou_bbox2) \/ shared = 0
            THEN iou.value[1] = 0
            ELSE /\ iou.value[2] > 0
                 /\ iou.value[1] * (area_a + area_b - shared)
                        = shared * iou.value[2]

\* Two boxes of positive area that touch along an edge: the value is 0.
C15_Witness ==
    /\ pc = "iou_returned"
    /\ iou_bbox1 = <<0, 0, 1, 2>>
    /\ iou_bbox2 = <<1, 0, 2, 2>>
    /\ iou.value[1] = 0

NonNegativeSize(bbox) == bbox[3] >= 0 /\ bbox[4] >= 0

HasBox(item) == "Box" \in DOMAIN item
BoxEntries(payload) ==
    IF "result" \in DOMAIN payload THEN SelectSeq(payload.result, HasBox) ELSE <<>>

\* Every Box of the payload has its four coordinates and its entry a label.
FormDataWellFormed(payload) ==
    \A item \in SeqRange(BoxEntries(payload)) :
        /\ {"X", "Y", "Width", "Height"} \subseteq DOMAIN item.Box
        /\ "label" \in DOMAIN item

\* The position of the first Box entry of the payload with this label.
FirstEntryWith(payload, label) ==
    CHOOSE k \in 1..Len(BoxEntries(payload)) :
        /\ BoxEntries(payload)[k].label = label
        /\ \A j \in 1..(k - 1) : BoxEntries(payload)[j].label # label

\* C17: to_coco returns one annotation for each entry with a Box and none
\* for a RegisterMatrix entry, in payload order with ids 1..n, bbox
\* [X, Y, Width, Height], area Width * Height and the entry's Score (0 when
\* it has none); the categories are the distinct labels in the order of
\* their first entry with ids 1.., and an annotation's category_id is the
\* id of its entry's label.
C17_FormDataToCoco ==
    (entry = "FormData" /\ coco # NoResult /\ FormDataWellFormed(native)) =>
        LET entries == BoxEntries(native)
            anns == coco.annotations
            cats == coco.categories
        IN  /\ coco.returned
            /\ Len(anns) = Len(entries)
            /\ \A k \in 1..Len(anns) :
                  LET box == entries[k].Box
                  IN  /\ anns[k].id = k
                      /\ anns[k].bbox = <<box.X, box.Y, box.Width, box.Height>>
                      /\ anns[k].area = box.Width * box.Height
                      /\ anns[k].score =
                            IF "Score" \in DOMAIN entries[k]
                            THEN entries[k].Score ELSE 0
                      /\ \E c \in SeqRange(cats) :
                            c.id = anns[k].category_id /\ c.name = entries[k].label
            /\ {c.name : c \in SeqRange(cats)}
                  = {item.label : item \in SeqRange(entries)}
            /\ \A k \in 1..Len(cats) : cats[k].id = k
            /\ \A j, k \in 1..Len(cats) :
                  j < k => FirstEntryWith(native, cats[j].name)
                              < FirstEntryWith(native, cats[k].name)

\* The example: a RegisterMatrix entry followed by a Box labelled "a" give
\* one annotation with bbox [10, 10, 5, 5] and area 25, and one category.
C17_Witness ==
    /\ entry = "FormData"
    /\ pc = "to_coco_returned"
    /\ "result" \in DOMAIN native
    /\ native.result =
          <<RegisterMatrixItem,
            [Box |-> [X |-> 10, Y |-> 10, Width |-> 5, Height |-> 5, Angle |-> 0],
             label |-> <<97>>]>>
    /\ Len(coco.annotations) = 1
    /\ coco.annotations[1].bbox = <<10, 10, 5, 5>>
    /\ coco.annotations[1].area = 25
    /\ coco.annotations[1].score = 0
    /\ coco.categories = <<[id |-> 1, name |-> <<97>>]>>

\* Every Box entry of the payload carries its four coordinates, an Angle,
\* a Score and a label.
FormDataComplete(payload) ==
    \A item \in SeqRange(BoxEntries(payload)) :
        /\ DOMAIN item.Box = {"X", "Y", "Width", "Height", "Angle"}
        /\ {"Score", "label"} \subseteq DOMAIN item

\* C18: from_coco(to_coco(x)) has as many Box entries as x, in the same
\* order and each with the same X, Y, Width, Height, Angle, Score and
\* label as in x, and the same image_width, image_height and dataset_id.
C18_FormDataRoundTrip ==
    (entry = "FormData" /\ pc = "from_coco_returned" /\ FormDataComplete(native)) =>
        LET original == BoxEntries(native)
            back == BoxEntries(restored)
        IN  /\ Len(back) = Len(original)
            /\ \A k \in 1..Len(original) :
                  /\ back[k].Box = original[k].Box
                  /\ back[k].Score = original[k].Score
                  /\ back[k].label = original[k].label
            /\ restored.image_width = native.image_width
            /\ restored.image_height = native.image_height
            /\ restored.dataset_id = native.dataset_id

\* A payload of two Box entries, the first with a non-zero Angle and the
\* second with Angle 0 and another label, has gone through both
\* conversions.
C18_Witness ==
    /\ entry = "FormData"
    /\ pc = "from_coco_returned"
    /\ FormDataComplete(native)
    /\ Len(BoxEntries(native)) = 2
    /\ BoxEntries(native)[1].Box.Angle # 0
    /\ BoxEntries(native)[2].Box.Angle = 0
    /\ BoxEntries(native)[1].label # BoxEntries(native)[2].label
    /\ "angle" \in DOMAIN coco.annotations[1]
    /\ "angle" \notin DOMAIN coco.annotations[2]
    /\ Len(restored.result) = 3

(***************************************************************************)
(* Claims about BinaryFormatConverter                                      *)
(***************************************************************************)
\* The detections of a Binary payload in flattened suggestion order.
FlatDetections(payload) ==
    IF "suggestion" \in DOMAIN payload THEN Flattened(payload.suggestion) ELSE <<>>

\* Every detection of the payload has a Box with its four coordinates.
BinaryComplete(payload) ==
    \A det \in SeqRange(FlatDetections(payload)) :
        /\ "Box" \in DOMAIN det
        /\ DOMAIN det.Box = {"x1", "y1", "x2", "y2"}

\* Detection back of the round trip is detection det but for its x2, y2.
SameButCorner(back, det) ==
    /\ back.Box.x1 = det.Box.x1
    /\ back.Box.y1 = det.Box.y1
    /\ back.Class = det.Class
    /\ back.Scores = det.Scores
    /\ ("Picture_id" \in DOMAIN back) = ("Picture_id" \in DOMAIN det)
    /\ "Picture_id" \in DOMAIN det => back.Picture_id = det.Picture_id

\* C19 as stated: the round trip returns, in flattened suggestion order,
\* detections with identical x1, y1, x2, y2, Class, Scores and Picture_id.
C19_BinaryRoundTripIdentical ==
    (entry = "Binary" /\ pc = "from_coco_returned" /\ BinaryComplete(native)) =>
        LET original == FlatDetections(native)
            back == FlatDetections(restored)
        IN  /\ Len(back) = Len(original)
            /\ \A k \in 1..Len(original) :
                  /\ SameButCorner(back[k], original[k])
                  /\ back[k].Box.x2 = original[k].Box.x2
                  /\ back[k].Box.y2 = original[k].Box.y2

\* A coordinate that came back equals the original one when the Box's
\* coordinates are ints, and is within the spacing of the floats of the
\* coordinates' magnitude when they are floats.
CornerRestored(back, original, start) ==
    /\ back.float = original.float
    /\ IF ~original.float /\ ~start.float
       THEN back.value = original.value
       ELSE Abs(back.value - original.value)
               <= Quantum(Abs(start.value) + Abs(original.value))

\* C19 (amended): the round trip returns, in flattened suggestion order,
\* detections with identical x1, y1, Class, Scores and Picture_id; x2 and
\* y2 are identical for int coordinates and equal up to the rounding of
\* (x2 - x1) and x1 + (x2 - x1) for float coordinates.
C19_BinaryRoundTrip ==
    (entry = "Binary" /\ pc = "from_coco_returned" /\ BinaryComplete(native)) =>
        LET original == FlatDetections(native)
            back == FlatDetections(restored)
        IN  /\ Len(back) = Len(original)
            /\ \A k \in 1..Len(original) :
                  /\ SameButCorner(back[k], original[k])
                  /\ CornerRestored(back[k].Box.x2, original[k].Box.x2,
                                    original[k].Box.x1)
                  /\ CornerRestored(back[k].Box.y2, original[k].Box.y2,
                                    original[k].Box.y1)

\* Two groups, the first a list with a detection of int coordinates and a
\* Picture_id, the second a detection of float coordinates whose x2 comes
\* back changed.
C19_Witness ==
    /\ entry = "Binary"
    /\ pc = "from_coco_returned"
    /\ BinaryComplete(native)
    /\ "suggestion" \in DOMAIN native
    /\ Len(native.suggestion) = 2
    /\ IsList(native.suggestion[1])
    /\ ~IsList(native.suggestion[2])
    /\ Len(FlatDetections(native)) = 2
    /\ ~FlatDetections(native)[1].Box.x2.float
    /\ "Picture_id" \in DOMAIN FlatDetections(native)[1]
    /\ FlatDetections(native)[2].Box.x2.float
    /\ FlatDetections(restored)[1].Box = FlatDetections(native)[1].Box
    /\ FlatDetections(restored)[2].Box.x2 # FlatDetections(native)[2].Box.x2

(***************************************************************************)
(* Claims about both converters                                            *)
(***************************************************************************)
\* A Box entry of a FormData payload, or a detection of a Binary payload,
\* whose Box has all its coordinate keys.
FormDataEntryWellFormed(item) ==
    {"X", "Y", "Width", "Height"} \subseteq DOMAIN item.Box
BinaryEntryWellFormed(det) ==
    "Box" \in DOMAIN det /\ {"x1", "y1", "x2", "y2"} \subseteq DOMAIN det.Box

\* C20: to_coco skips an entry whose Box lacks a coordinate key: the call
\* returns a document, whose annotations are those of the well-formed
\* entries, one each and in order, and none for the malformed entry.
C20_MalformedEntrySkipped ==
    (entry \in {"FormData", "Binary"} /\ pc # "to_coco") =>
        /\ coco.returned
        /\ entry = "FormData" =>
              LET good == SelectSeq(BoxEntries(native), FormDataEntryWellFormed)
              IN  /\ Len(coco.annotations) = Len(good)
                  /\ \A k \in 1..Len(good) :
                        coco.annotations[k].bbox =
                            <<good[k].Box.X, good[k].Box.Y,
                              good[k].Box.Width, good[k].Box.Height>>
        /\ entry = "Binary" =>
              LET good == SelectSeq(FlatDetections(native), BinaryEntryWellFormed)
              IN  /\ Len(coco.annotations) = Len(good)
                  /\ \A k \in 1..Len(good) :
                        /\ coco.annotations[k].bbox[1] = good[k].Box.x1
                        /\ coco.annotations[k].bbox[2] = good[k].Box.y1

\* C21: to_coco ends with an error, and returns no document, when the
\* payload has no 'result' key (FormData) or no 'suggestion' key (Binary).
C21_MissingListKeyFails ==
    (/\ entry \in {"FormData", "Binary"}
     /\ pc # "to_coco"
     /\ \/ entry = "FormData" /\ "result" \notin DOMAIN native
        \/ entry = "Binary" /\ "suggestion" \notin DOMAIN native) =>
        ~coco.returned

(***************************************************************************)
(* Further claims about split_image                                        *)
(***************************************************************************)
\* C22: for a valid configuration and an image at least as large as a tile
\* on both axes, every emitted tile is tile_width x tile_height; no tile
\* starts beyond width - tile_width or height - tile_height, and when
\* split_image returns every row of tiles has a tile at x_offset = width -
\* tile_width and every column one at y_offset = height - tile_height,
\* whose far edges are the image's far edges.
C22_FullTilesAnchoredAtEdges ==
    (ValidTileConfig /\ width >= tile_width /\ height >= tile_height) =>
        /\ \A i \in 1..Len(tiles) :
              /\ tiles[i].tile_width = tile_width
              /\ tiles[i].tile_height = tile_height
              /\ tiles[i].image[3] - tiles[i].image[1] = tile_width
              /\ tiles[i].image[4] - tiles[i].image[2] = tile_height
              /\ tiles[i].x_offset <= width - tile_width
              /\ tiles[i].y_offset <= height - tile_height
        /\ pc = "return" =>
              /\ tiles # <<>>
              /\ \A i \in 1..Len(tiles) :
                    /\ \E j \in 1..Len(tiles) :
                          /\ tiles[j].y_offset = tiles[i].y_offset
                          /\ tiles[j].x_offset = width - tile_width
                          /\ tiles[j].x_offset + tiles[j].tile_width = width
                    /\ \E j \in 1..Len(tiles) :
                          /\ tiles[j].x_offset = tiles[i].x_offset
                          /\ tiles[j].y_offset = height - tile_height
                          /\ tiles[j].y_offset + tiles[j].tile_height = height

\* split_image returned for an image larger than a tile on both axes whose
\* last column and last row both lie off the stride grid.
C22_Witness ==
    /\ pc = "return"
    /\ ValidTileConfig
    /\ width > tile_width
    /\ height > tile_height
    /\ (width - tile_width) % stride_x # 0
    /\ (height - tile_height) % stride_y # 0
    /\ tiles[Len(tiles)].x_offset = width - tile_width
    /\ tiles[Len(tiles)].y_offset = height - tile_height

\* C23: no two tiles of the list have the same (x_offset, y_offset), and
\* their tile_index values differ.
C23_NoTileTwice ==
    ValidTileConfig =>
        \A i, j \in 1..Len(tiles) :
            i # j =>
                /\ tiles[i].tile_index # tiles[j].tile_index
                /\ <<tiles[i].x_offset, tiles[i].y_offset>>
                      # <<tiles[j].x_offset, tiles[j].y_offset>>

\* An iteration of the column loop moves x to the right, and the end of a
\* row moves y down.
SplitAdvances ==
    /\ (pc = "while_x" /\ x < width) => x' > x
    /\ pc = "after_x" => y' > y

\* C24: with 0 <= overlap < min(tile_width, tile_height) and an image of
\* width and height >= 1, every iteration of split_image strictly
\* increases x, and every row strictly increases y, and the call returns.
C24_SplitTerminates ==
    /\ [][ValidTileConfig => SplitAdvances]_vars
    /\ (ValidTileConfig /\ pc = "split_image") ~> (pc = "return")

\* split_image returned after several rows of several columns.
C24_Witness ==
    /\ pc = "return"
    /\ ValidTileConfig
    /\ Len(tiles) >= 4
    /\ tiles[Len(tiles)].x_offset > 0
    /\ tiles[Len(tiles)].y_offset > 0
    /\ x >= width
    /\ y >= height

NmsInput == AllAnnotations(tile_predictions)
NmsInputOneCategory ==
    [k \in 1..Len(NmsInput) |-> [NmsInput[k] EXCEPT !.category_id = 1]]
KeptTags(anns) ==
    {a.extra : a \in SeqRange(apply_nms_coco_format(anns, iou_threshold))}

\* C26: suppression does not look at categories: of two detections whose
\* IoU is at least the threshold at most one is returned, whatever their
\* category ids, and the detections that survive are the ones that survive
\* when all detections are given one and the same category id.
C26_NmsIgnoresCategory ==
    pc = "combine_returned" =>
        LET input == NmsInput
            returned == {o.extra : o \in SeqRange(combined.annotations)}
        IN  /\ \A j, k \in 1..Len(input) :
                  (/\ j < k
                   /\ ~FracLess(IouOf(input[j], input[k]), iou_threshold))
                  => input[j].extra \notin returned \/ input[k].extra \notin returned
            /\ returned
                  = IF input = <<>> THEN {} ELSE KeptTags(NmsInputOneCategory)

\* Two tiles at the same offset each detect the same box, under different
\* category ids and different names: one detection is returned.
C26_Witness ==
    /\ pc = "combine_returned"
    /\ Len(NmsInput) = 2
    /\ NmsInput[1].bbox = NmsInput[2].bbox
    /\ NmsInput[1].category_id # NmsInput[2].category_id
    /\ OriginName(NmsInput[1]) # OriginName(NmsInput[2])
    /\ Len(combined.annotations) = 1

(***************************************************************************)
(* IAMTokenAuth (src/src/cv_ninja/predictors/auth.py)                      *)
(*                                                                         *)
(* time.time() is the variable now, in whole seconds; it never runs        *)
(* backwards.  A get_headers call is at one of these positions:            *)
(*   "get_headers"  called, the expiry test of line 84 not yet made;       *)
(*   "acquiring"    requests.post of _acquire_token is in flight;          *)
(*   "returned"     the call has returned headers at this very instant;    *)
(*   "raised"       the call has raised at this very instant;              *)
(*   "idle"         no call is running and time has passed since the last. *)
(* headers keeps how the last finished get_headers call ended.             *)
(***************************************************************************)
MaxTime == 4
MaxCacheDuration == 2

\* The X-Subject-Token values the IAM service hands out.
SubjectTokens == {"token1", "token2"}

\* What ends a failed acquisition: requests.post or raise_for_status raises,
\* or the response carries no (or an empty) X-Subject-Token.
AcquireErrors == {"RequestException", "ValueError"}

\* A token is still good at the very second it expires.
IsTokenExpiredLate == now > token_expiry

\* _is_token_expired
is_token_expired == now >= token_expiry

\* The instant a call ended is over as soon as time passes.
AfterInstant(position) ==
    IF position \in {"returned", "raised"} THEN "idle" ELSE position

\* Time passes, wherever the call stands.
Tick ==
    /\ entry = "IAMTokenAuth"
    /\ now < MaxTime
    /\ now' = now + 1
    /\ pc' = AfterInstant(pc)
    /\ UNCHANGED <<cache_duration, token, token_expiry, headers>>
    /\ UNCHANGED <<formatVars, iouVars, convVars, entry, tilerVars, splitVars,
                   tile_pos,
                   tile_predictions, combined, nmsVars>>

\* get_headers is called.
GetHeadersCall ==
    /\ entry = "IAMTokenAuth"
    /\ pc \in {"idle", "returned", "raised"}
    /\ pc' = "get_headers"
    /\ UNCHANGED <<formatVars, authVars, iouVars, convVars, entry, tilerVars, splitVars,
                   tile_pos, tile_predictions, combined, nmsVars>>

\* get_headers, the cached token is not expired: lines 84 and 87.
GetHeadersCached ==
    /\ entry = "IAMTokenAuth"
    /\ pc = "get_headers"
    /\ ~is_token_expired
    /\ headers' = [returned |-> TRUE, X_Auth_Token |-> token]
    /\ pc' = "returned"
    /\ UNCHANGED <<now, cache_duration, token, token_expiry>>
    /\ UNCHANGED <<formatVars, iouVars, convVars, entry, tilerVars, splitVars,
                   tile_pos,
                   tile_predictions, combined, nmsVars>>

\* get_headers, the token is expired: _acquire_token posts to the IAM url.
GetHeadersAcquire ==
    /\ entry = "IAMTokenAuth"
    /\ pc = "get_headers"
    /\ is_token_expired
    /\ pc' = "acquiring"
    /\ UNCHANGED <<formatVars, authVars, iouVars, convVars, entry, tilerVars, splitVars,
                   tile_pos, tile_predictions, combined, nmsVars>>

\* The failed acquisition stamps the cache before it raises.
AcquireFailsStamped ==
    /\ entry = "IAMTokenAuth"
    /\ pc = "acquiring"
    /\ \E exception \in AcquireErrors : headers' = Raised(exception)
    /\ token_expiry' = now + cache_duration
    /\ pc' = "raised"
    /\ UNCHANGED <<now, cache_duration, token>>
    /\ UNCHANGED <<formatVars, iouVars, convVars, entry, tilerVars, splitVars,
                   tile_pos,
                   tile_predictions, combined, nmsVars>>

\* The response carries a token: lines 138-141, then line 87.
AcquireSucceeds ==
    /\ entry = "IAMTokenAuth"
    /\ pc = "acquiring"
    /\ \E subject_token \in SubjectTokens :
        /\ token' = subject_token
        /\ headers' = [returned |-> TRUE, X_Auth_Token |-> subject_token]
    /\ token_expiry' = now + cache_duration
    /\ pc' = "returned"
    /\ UNCHANGED <<now, cache_duration>>
    /\ UNCHANGED <<formatVars, iouVars, convVars, entry, tilerVars, splitVars,
                   tile_pos,
                   tile_predictions, combined, nmsVars>>

\* The request fails or the response carries no token: lines 129-135, 143.
AcquireFails ==
    /\ entry = "IAMTokenAuth"
    /\ pc = "acquiring"
    /\ \E exception \in AcquireErrors : headers' = Raised(exception)
    /\ pc' = "raised"
    /\ UNCHANGED <<now, cache_duration, token, token_expiry>>
    /\ UNCHANGED <<formatVars, iouVars, convVars, entry, tilerVars, splitVars,
                   tile_pos,
                   tile_predictions, combined, nmsVars>>

\* clear_cache
ClearCache ==
    /\ entry = "IAMTokenAuth"
    /\ pc \in {"idle", "returned", "raised"}
    /\ token' = None
    /\ token_expiry' = 0
    /\ pc' = "idle"
    /\ UNCHANGED <<now, cache_duration, headers>>
    /\ UNCHANGED <<formatVars, iouVars, convVars, entry, tilerVars, splitVars,
                   tile_pos,
                   tile_predictions, combined, nmsVars>>

NextAuth ==
    \/ Tick
    \/ GetHeadersCall
    \/ GetHeadersCached
    \/ GetHeadersAcquire
    \/ AcquireSucceeds
    \/ AcquireFails
    \/ ClearCache

\* __init__: no token, expiry 0; cache_duration is taken as it is given.
InitAuth ==
    /\ entry = "IAMTokenAuth"
    /\ pc = "idle"
    /\ tile_width = 2
    /\ tile_height = 2
    /\ overlap = 1
    /\ iou_threshold = <<1, 2>>
    /\ width = 0
    /\ height = 0
    /\ x = 0
    /\ y = 0
    /\ tile_index = 0
    /\ tiles = <<>>
    /\ tile_pos = 0
    /\ tile_predictions = <<>>
    /\ combined = NoDocument
    /\ annotations = <<>>
    /\ keep = <<>>
    /\ keep_again = <<>>
    /\ iou_bbox1 = <<>>
    /\ iou_bbox2 = <<>>
    /\ iou = NoResult
    /\ native = NoResult
    /\ coco = NoResult
    /\ restored = NoResult
    /\ now \in 0..MaxTime
    /\ cache_duration \in 0..MaxCacheDuration
    /\ token = None
    /\ token_expiry = 0
    /\ headers = NoResult
    /\ FormatterUnused

SpecAuth == InitAuth /\ [][NextAuth]_vars

(***************************************************************************)
(* Claims about IAMTokenAuth                                               *)
(***************************************************************************)

\* The last finished get_headers call raised.
LastCallRaised == "raised" \in DOMAIN headers

\* get_headers has just returned the cached token, which is not None, not
\* empty and not expired.
ReturnedTokenUnexpired ==
    pc = "returned" =>
        /\ headers.returned
        /\ headers.X_Auth_Token = token
        /\ token \notin {None, ""}
        /\ now < token_expiry

\* The step that leaves line 84: an absent or expired token sends the call to
\* the IAM service, any other token is returned as it is, with no request.
GetHeadersDecides ==
    (pc = "get_headers" /\ pc' # "get_headers") =>
        IF token = None \/ now >= token_expiry
        THEN pc' = "acquiring"
        ELSE pc' = "returned" /\ token' = token /\ token_expiry' = token_expiry

\* C27, as stated: whenever get_headers returns, the token it returns is
\* non-empty and unexpired (the current time is before its expiry).
C27_ReturnedTokenUnexpired == ReturnedTokenUnexpired

\* C27, amended: on an IAMTokenAuth whose cache_duration is positive, whenever
\* get_headers returns, the token it returns is non-empty and unexpired; for
\* every cache_duration, an absent or expired token makes get_headers acquire
\* a new one before it returns, and no IAM request is made while the cached
\* token is unexpired.
C27_GetHeadersToken ==
    /\ [](cache_duration > 0 => ReturnedTokenUnexpired)
    /\ [](pc = "acquiring" => is_token_expired)
    /\ [](token = None => is_token_expired)
    /\ [][GetHeadersDecides]_vars

\* A later get_headers returns the cached token without a request: the token
\* was acquired before now and expires after now.
C27_Witness ==
    /\ entry = "IAMTokenAuth"
    /\ pc = "returned"
    /\ cache_duration > 0
    /\ headers.returned
    /\ headers.X_Auth_Token = token
    /\ token_expiry - cache_duration < now
    /\ now < token_expiry

\* A failed acquisition raises and leaves the cache as it was.
AcquisitionFailure ==
    (pc = "acquiring" /\ pc' = "raised") =>
        /\ LastCallRaised'
        /\ ~headers'.returned
        /\ token' = token
        /\ token_expiry' = token_expiry

\* The get_headers call after a failed one goes to the IAM service again.
TriesAgain ==
    (LastCallRaised /\ pc = "get_headers" /\ pc' # "get_headers") =>
        pc' = "acquiring"

\* C28: when the acquisition fails, get_headers raises, _token and
\* _token_expiry stay as they were, and the cache stays expired, so that the
\* next get_headers attempts the acquisition again instead of returning the
\* stale token.
C28_FailureLeavesCache ==
    /\ [][AcquisitionFailure /\ TriesAgain]_vars
    /\ [](LastCallRaised => is_token_expired)

\* After a failed call, with a stale token still in the cache, the next
\* get_headers is asking the IAM service again.
C28_Witness ==
    /\ entry = "IAMTokenAuth"
    /\ pc = "acquiring"
    /\ LastCallRaised
    /\ token # None

(***************************************************************************)
(* LabelStudioFormatConverter (src/src/cv_ninja/predictors/formats.py)     *)
(*                                                                         *)
(* The converter is built with prefix "".  Pixel coordinates are ints; a   *)
(* percentage and a coordinate computed from one are exact fractions       *)
(* <<numerator, denominator>> (the rounding of Python's floats is left     *)
(* out).  A file name has no directory part, so Path(name).name is name.   *)
(* data['label'], the sorted names joined by ', ', is the sorted sequence  *)
(* of the names.  coco is the document handed to from_coco, native what    *)
(* from_coco returns and restored what to_coco makes of that.              *)
(***************************************************************************)
MaxLsAnns == 2    \* a document for from_coco holds at most this many annotations

EmptyDict == [key \in {} |-> key]

\* basename.split('_') for the file names of the model.
SplitAtUnderscores(basename) ==
    IF basename = "FN_jieba_image001.jpg"
    THEN <<"FN", "jieba", "image001.jpg">>
    ELSE <<basename>>

\* _parse_filename_metadata, lines 494-504 (and output_formatter.py 36-48).
parse_filename_metadata(filename) ==
    LET parts == SplitAtUnderscores(filename)
    IN  IF Len(parts) >= 2 /\ parts[1] \in {"FN", "FP"}
        THEN [basename |-> filename, review_label |-> parts[1],
              target_class |-> parts[2]]
        ELSE [basename |-> filename, review_label |-> None,
              target_class |-> None]

\* (pixels / size) * 100, and 0 when the size is not positive: lines 643-646.
Percent(pixels, size) == IF size > 0 THEN <<pixels * 100, size>> ELSE <<0, 1>>

\* (percent / 100) * size: lines 576-579.
Pixels(percent, size) == <<percent[1] * size, percent[2] * 100>>

FractionMul(a, b) == <<a[1] * b[1], a[2] * b[2]>>

\* ', '.join(sorted(labels_set)) over the labels of the results.
RECURSIVE InsertName(_, _)
InsertName(sorted, name) ==
    IF sorted = <<>> THEN <<name>>
    ELSE IF name = Head(sorted) THEN sorted
    ELSE IF LexLess(name, Head(sorted)) THEN <<name>> \o sorted
    ELSE <<Head(sorted)>> \o InsertName(Tail(sorted), name)

RECURSIVE SortedLabels(_)
SortedLabels(results) ==
    IF results = <<>>
    THEN <<>>
    ELSE InsertName(SortedLabels(Tail(results)),
                    Head(results).value.rectanglelabels[1])

\* Lines 637-662 for one annotation.
LabelStudioResult(ann, categories, image_width, image_height) ==
    [from_name |-> "label",
     to_name |-> "image",
     type |-> "rectanglelabels",
     value |-> [x |-> Percent(ann.bbox[1], image_width),
                y |-> Percent(ann.bbox[2], image_height),
                width |-> Percent(ann.bbox[3], image_width),
                height |-> Percent(ann.bbox[4], image_height),
                rectanglelabels |->
                    <<FormDataLabelOf(categories, ann.category_id)>>],
     original_width |-> image_width,
     original_height |-> image_height,
     score |-> Get(ann, "score", 0)]

\* Truthiness of an optional str.
Truthy(value) == value \notin {None, ""}

\* Lines 664-679: the data dict.
LabelStudioData(parsed, metadata, results) ==
    LET review_label == IF Truthy(parsed.review_label)
                        THEN parsed.review_label
                        ELSE Get(metadata, "review_label", None)
        target_class == IF Truthy(parsed.target_class)
                        THEN parsed.target_class
                        ELSE Get(metadata, "target_class", None)
        data == [image |-> parsed.basename,
                 filename |-> parsed.basename,
                 label |-> SortedLabels(results)]
        with_review == IF Truthy(review_label)
                       THEN data @@ [review_label |-> review_label]
                       ELSE data
    IN  IF Truthy(target_class)
        THEN with_review @@ [target_class |-> target_class]
        ELSE with_review

\* The result list under the key the output_mode names: lines 681-687
\* (and output_formatter.py 127-131).
UnderOutputMode(result_data, mode, results) ==
    LET groups == IF results # <<>> THEN <<[result |-> results]>> ELSE <<>>
    IN  IF mode = "predictions"
        THEN result_data @@ [predictions |-> groups]
        ELSE result_data @@ [annotations |-> groups]

\* LabelStudioFormatConverter.from_coco
LabelStudio_from_coco(coco_data, mode) ==
    LET image_info == Get(coco_data, "images", <<EmptyDict>>)[1]
        image_width == Get(image_info, "width", 0)
        image_height == Get(image_info, "height", 0)
        parsed == parse_filename_metadata(
                      Get(image_info, "file_name", "image.jpg"))
        categories == Get(coco_data, "categories", <<>>)
        anns == Get(coco_data, "annotations", <<>>)
        result_list ==
            [k \in 1..Len(anns) |->
                LabelStudioResult(anns[k], categories,
                                  image_width, image_height)]
        data == LabelStudioData(parsed, Get(coco_data, "metadata", EmptyDict),
                                result_list)
    IN  UnderOutputMode([returned |-> TRUE, data |-> data], mode, result_list)

\* Lines 553-563 over the groups: the results that become annotations, in
\* order.  Only the key 'annotations' of the payload is read (line 522).
IsRectangle(result) ==
    /\ Get(result, "type", None) = "rectanglelabels"
    /\ Get(Get(result, "value", EmptyDict), "rectanglelabels", <<>>) # <<>>

RECURSIVE RectangleResults(_)
RectangleResults(annotations_list) ==
    IF annotations_list = <<>>
    THEN <<>>
    ELSE SelectSeq(Get(Head(annotations_list), "result", <<>>), IsRectangle)
             \o RectangleResults(Tail(annotations_list))

\* Lines 567-574: the categories in the order their labels first appear.
RECURSIVE LabelStudioCategories(_)
LabelStudioCategories(results) ==
    IF results = <<>>
    THEN <<>>
    ELSE LET front == LabelStudioCategories(
                          SubSeq(results, 1, Len(results) - 1))
             label == results[Len(results)].value.rectanglelabels[1]
         IN  IF \E k \in 1..Len(front) : front[k].name = label
             THEN front
             ELSE Append(front, [id |-> Len(front) + 1, name |-> label])

\* Lines 576-599 for one result.
LabelStudioAnnotation(result, annotation_id, image_id, categories, size) ==
    LET value == result.value
        label == value.rectanglelabels[1]
        bx == Pixels(Get(value, "x", <<0, 1>>), size[1])
        by == Pixels(Get(value, "y", <<0, 1>>), size[2])
        w == Pixels(Get(value, "width", <<0, 1>>), size[1])
        h == Pixels(Get(value, "height", <<0, 1>>), size[2])
    IN  [id |-> annotation_id,
         image_id |-> image_id,
         category_id |-> BinaryCategoryId(categories, label),
         bbox |-> <<bx, by, w, h>>,
         area |-> FractionMul(w, h),
         score |-> Get(result, "score", 0),
         iscrowd |-> 0]

\* LabelStudioFormatConverter.to_coco
LabelStudio_to_coco(predictions, image_id) ==
    LET data == Get(predictions, "data", EmptyDict)
        annotations_list == Get(predictions, "annotations", <<>>)
        sized == /\ annotations_list # <<>>
                 /\ Get(annotations_list[1], "result", <<>>) # <<>>
        first_result == annotations_list[1].result[1]
        image_width == IF sized THEN Get(first_result, "original_width", 0)
                       ELSE 0
        image_height == IF sized THEN Get(first_result, "original_height", 0)
                        ELSE 0
        results == RectangleResults(annotations_list)
        categories == LabelStudioCategories(results)
        coco_annotations ==
            [k \in 1..Len(results) |->
                LabelStudioAnnotation(results[k], k, image_id, categories,
                                      <<image_width, image_height>>)]
    IN  [returned |-> TRUE,
         images |-> <<[id |-> image_id,
                       width |-> image_width,
                       height |-> image_height,
                       file_name |-> Get(data, "image", "")]>>,
         annotations |-> coco_annotations,
         categories |-> categories,
         metadata |-> [review_label |-> Get(data, "review_label", None),
                       target_class |-> Get(data, "target_class", None),
                       total_detections |-> Len(coco_annotations)]]

\* The documents handed to from_coco.
LabelStudioFileNames == {"image.jpg", "FN_jieba_image001.jpg"}
LabelStudioSizes == {<<4, 2>>, <<0, 0>>}
LabelStudioBoxes == {<<1, 0, 1, 2>>}
LabelStudioScores == {9}
LabelStudioAnns ==
    {[id |-> 0, image_id |-> 1, category_id |-> id, bbox |-> box,
      score |-> score] :
        id \in CategoryIds, box \in LabelStudioBoxes,
        score \in LabelStudioScores}
        \cup {[id |-> 0, image_id |-> 1, category_id |-> id, bbox |-> box] :
                 id \in CategoryIds, box \in LabelStudioBoxes}
LabelStudioAnnLists == UNION {[1..n -> LabelStudioAnns] : n \in 0..MaxLsAnns}
LabelStudioMetadata == [review_label |-> "FP", target_class |-> "maobian"]
LabelStudioDocuments ==
    LET images(size, name) == <<[id |-> 1, width |-> size[1],
                                 height |-> size[2], file_name |-> name]>>
    IN  {[images |-> images(size, name), categories |-> cats,
          annotations |-> anns] :
            size \in LabelStudioSizes, name \in LabelStudioFileNames,
            cats \in CategoryLists, anns \in LabelStudioAnnLists}
        \cup {[images |-> images(size, name), categories |-> cats,
               annotations |-> anns, metadata |-> LabelStudioMetadata] :
                 size \in LabelStudioSizes, name \in LabelStudioFileNames,
                 cats \in CategoryLists, anns \in LabelStudioAnnLists}

\* from_coco is called on the document.
LabelStudioFromCoco ==
    /\ entry = "LabelStudio"
    /\ pc = "from_coco"
    /\ native' = LabelStudio_from_coco(coco, output_mode)
    /\ pc' = "from_coco_returned"
    /\ UNCHANGED <<formatVars, authVars, iouVars, entry, tilerVars, splitVars,
                   tile_pos, tile_predictions, combined, nmsVars, coco,
                   restored>>

\* What from_coco returned is handed to to_coco of the same converter.
LabelStudioToCoco ==
    /\ entry = "LabelStudio"
    /\ pc = "from_coco_returned"
    /\ restored' = LabelStudio_to_coco(native, 1)
    /\ pc' = "to_coco_returned"
    /\ UNCHANGED <<formatVars, authVars, iouVars, entry, tilerVars, splitVars,
                   tile_pos, tile_predictions, combined, nmsVars, coco,
                   native>>

NextLabelStudio ==
    \/ LabelStudioFromCoco
    \/ LabelStudioToCoco

InitLabelStudio ==
    /\ entry = "LabelStudio"
    /\ pc = "from_coco"
    /\ tile_width = 2
    /\ tile_height = 2
    /\ overlap = 1
    /\ iou_threshold = <<1, 2>>
    /\ width = 0
    /\ height = 0
    /\ x = 0
    /\ y = 0
    /\ tile_index = 0
    /\ tiles = <<>>
    /\ tile_pos = 0
    /\ tile_predictions = <<>>
    /\ combined = NoDocument
    /\ annotations = <<>>
    /\ keep = <<>>
    /\ keep_again = <<>>
    /\ iou_bbox1 = <<>>
    /\ iou_bbox2 = <<>>
    /\ iou = NoResult
    /\ coco \in LabelStudioDocuments
    /\ native = NoResult
    /\ restored = NoResult
    /\ AuthUnused
    /\ output_mode \in {"annotations", "predictions"}
    /\ output_format = "labelstudio"
    /\ formatted = NoResult

SpecLabelStudio == InitLabelStudio /\ [][NextLabelStudio]_vars

(***************************************************************************)
(* Claims about LabelStudioFormatConverter                                 *)
(***************************************************************************)

\* The name a COCO document gives the category of one of its annotations.
CategoryNameIn(document, ann) ==
    FormDataLabelOf(document.categories, ann.category_id)

HasCategoryIn(document, ann) ==
    \E k \in 1..Len(document.categories) :
        document.categories[k].id = ann.category_id

\* The document had a positive image size and has gone through from_coco and
\* then to_coco.
RoundTripDone ==
    /\ entry = "LabelStudio"
    /\ pc = "to_coco_returned"
    /\ coco.images[1].width > 0
    /\ coco.images[1].height > 0

\* restored has the annotations of coco: as many, in the same order, each
\* with the same category name and the same score.
SameAnnotations ==
    /\ Len(restored.annotations) = Len(coco.annotations)
    /\ \A k \in 1..Len(coco.annotations) :
        LET before == coco.annotations[k]
            after == restored.annotations[k]
        IN  /\ HasCategoryIn(coco, before) =>
                CategoryNameIn(restored, after) = CategoryNameIn(coco, before)
            /\ "score" \in DOMAIN before => after.score = before.score

\* C29: for either output_mode and every COCO document d of positive image
\* size, to_coco(from_coco(d)) has as many annotations as d, in the same
\* order, each with the same category name and score.
C29_LabelStudioRoundTrip == RoundTripDone => SameAnnotations

\* The same for a converter whose output_mode is 'annotations'.
AnnotationsModeRoundTrip ==
    (RoundTripDone /\ output_mode = "annotations") => SameAnnotations

(***************************************************************************)
(* PredictionOutputFormatter                                               *)
(* (src/src/cv_ninja/predictors/output_formatter.py), as predict_image     *)
(* calls it (src/src/cv_ninja/cli/commands/predict_commands.py).           *)
(*                                                                         *)
(* coco is the result the command got from the predictor or from           *)
(* predict_tiled, formatted what the formatter made of it.  The VOC XML    *)
(* is the record of what it holds: file name, size, and one entry per      *)
(* <object>.  A list the formatter returns is [list |-> its elements].     *)
(***************************************************************************)

\* 'bbox' and 'category_id' are read with []: lines 81-82.
DetectionKeyError(detection) ==
    "bbox" \notin DOMAIN detection \/ "category_id" \notin DOMAIN detection

\* Lines 81-107 for one annotation; the percentages are computed unguarded.
FormatterResult(detection, categories, image_width, image_height) ==
    [from_name |-> "label",
     to_name |-> "image",
     type |-> "rectanglelabels",
     value |-> [x |-> <<detection.bbox[1] * 100, image_width>>,
                y |-> <<detection.bbox[2] * 100, image_height>>,
                width |-> <<detection.bbox[3] * 100, image_width>>,
                height |-> <<detection.bbox[4] * 100, image_height>>,
                rectanglelabels |->
                    <<FormDataLabelOf(categories, detection.category_id)>>],
     original_width |-> image_width,
     original_height |-> image_height,
     score |-> Get(detection, "score", 0)]

\* PredictionOutputFormatter.to_labelstudio, prefix "".
Formatter_to_labelstudio(predictions, mode) ==
    LET image_info == Get(predictions, "images", <<EmptyDict>>)[1]
        image_width == Get(image_info, "width", 4096)
        image_height == Get(image_info, "height", 3000)
        parsed == parse_filename_metadata(
                      Get(image_info, "file_name", "image.jpg"))
        categories == Get(predictions, "categories", <<>>)
        detections == Get(predictions, "annotations", <<>>)
        results ==
            [k \in 1..Len(detections) |->
                FormatterResult(detections[k], categories,
                                image_width, image_height)]
    IN  IF detections # <<>> /\ (image_width = 0 \/ image_height = 0)
        THEN IF DetectionKeyError(detections[1])
             THEN Raised("KeyError")
             ELSE Raised("ZeroDivisionError")
        ELSE IF \E k \in 1..Len(detections) :
                    DetectionKeyError(detections[k])
        THEN Raised("KeyError")
        ELSE UnderOutputMode(
                 [returned |-> TRUE,
                  data |-> LabelStudioData(parsed, EmptyDict, results)],
                 mode, results)

\* 'bbox', 'class' and 'confidence' are read with []: lines 161-166.
RawDetectionKeyError(detection) ==
    \E key \in {"bbox", "class", "confidence"} : key \notin DOMAIN detection

\* f"{confidence:.4f}": a score in tenths printed in ten-thousandths.
FourDecimals(confidence) == confidence * 1000

\* Lines 161-175 for one detection; int() of an int is that int.
VocObject(detection) ==
    [name |-> detection.class,
     confidence |-> FourDecimals(detection.confidence),
     xmin |-> detection.bbox[1],
     ymin |-> detection.bbox[2],
     xmax |-> detection.bbox[3],
     ymax |-> detection.bbox[4]]

\* PredictionOutputFormatter.to_voc
Formatter_to_voc(predictions, image_name) ==
    LET detections == Get(predictions, "detections", <<>>)
    IN  IF \/ "image_width" \notin DOMAIN predictions
           \/ "image_height" \notin DOMAIN predictions
        THEN Raised("KeyError")
        ELSE IF \E k \in 1..Len(detections) :
                    RawDetectionKeyError(detections[k])
        THEN Raised("KeyError")
        ELSE [returned |-> TRUE,
              filename |-> image_name,
              width |-> predictions.image_width,
              height |-> predictions.image_height,
              depth |-> 3,
              objects |-> [k \in 1..Len(detections) |->
                              VocObject(detections[k])]]

\* Lines 203-221 for one detection; category_map is empty, so that
\* category_map.get(class_name, 1) is 1.
FormatterCocoAnnotation(detection, annotation_id, image_id) ==
    LET x1 == detection.bbox[1]
        y1 == detection.bbox[2]
        box_width == detection.bbox[3] - x1
        box_height == detection.bbox[4] - y1
    IN  [id |-> annotation_id,
         image_id |-> image_id,
         category_id |-> 1,
         bbox |-> <<x1, y1, box_width, box_height>>,
         area |-> box_width * box_height,
         iscrowd |-> 0,
         segmentation |-> <<>>]

\* PredictionOutputFormatter.to_coco, category_map not given.
Formatter_to_coco(predictions, image_id) ==
    LET detections == Get(predictions, "detections", <<>>)
    IN  IF \E k \in 1..Len(detections) :
               "bbox" \notin DOMAIN detections[k]
                   \/ "class" \notin DOMAIN detections[k]
        THEN Raised("KeyError")
        ELSE [returned |-> TRUE,
              list |-> [k \in 1..Len(detections) |->
                           FormatterCocoAnnotation(detections[k], k,
                                                   image_id)]]

\* What FormDataPredictor returns: the service's payload, to which
\* _make_request has added the image size, converted by the predictor's
\* converter.
PredictorResults ==
    {document \in {FormData_to_coco(payload, 1) : payload \in FormDataPayloads} :
        document.returned}

\* What predict_tiled returns for an image of one tile.
TiledResults ==
    {combine_predictions(<<TaggedResult(tile_result, 1)>>, <<3, 3>>, <<1, 2>>) :
        tile_result \in TileResults}

\* Raw predictions, the dict that to_voc and to_coco read.
RawDetections ==
    {[bbox |-> <<1, 2, 4, 6>>, class |-> <<97>>, confidence |-> 9]}
RawPredictions ==
    {[image_width |-> 100, image_height |-> 80, detections |-> detections] :
        detections \in {<<>>} \cup {<<detection>> : detection \in RawDetections}}

OutputFormats == {"labelstudio", "voc", "coco"}

\* predict_image, lines 389-392.
FormatLabelStudio ==
    /\ entry = "predict_image"
    /\ pc = "format"
    /\ output_format = "labelstudio"
    /\ formatted' = Formatter_to_labelstudio(coco, output_mode)
    /\ pc' = IF formatted'.returned THEN "formatted" ELSE "raised"
    /\ UNCHANGED <<output_mode, output_format>>
    /\ UNCHANGED <<authVars, iouVars, convVars, entry, tilerVars, splitVars,
                   tile_pos, tile_predictions, combined, nmsVars>>

\* predict_image, lines 394-397.
FormatVoc ==
    /\ entry = "predict_image"
    /\ pc = "format"
    /\ output_format = "voc"
    /\ formatted' = Formatter_to_voc(coco, "image.jpg")
    /\ pc' = IF formatted'.returned THEN "formatted" ELSE "raised"
    /\ UNCHANGED <<output_mode, output_format>>
    /\ UNCHANGED <<authVars, iouVars, convVars, entry, tilerVars, splitVars,
                   tile_pos, tile_predictions, combined, nmsVars>>

\* predict_image, lines 399-402.
FormatCoco ==
    /\ entry = "predict_image"
    /\ pc = "format"
    /\ output_format = "coco"
    /\ formatted' = Formatter_to_coco(coco, 1)
    /\ pc' = IF formatted'.returned THEN "formatted" ELSE "raised"
    /\ UNCHANGED <<output_mode, output_format>>
    /\ UNCHANGED <<authVars, iouVars, convVars, entry, tilerVars, splitVars,
                   tile_pos, tile_predictions, combined, nmsVars>>

NextFormat ==
    \/ FormatLabelStudio
    \/ FormatVoc
    \/ FormatCoco

InitFormat ==
    /\ entry = "predict_image"
    /\ pc = "format"
    /\ tile_width = 2
    /\ tile_height = 2
    /\ overlap = 1
    /\ iou_threshold = <<1, 2>>
    /\ width = 0
    /\ height = 0
    /\ x = 0
    /\ y = 0
    /\ tile_index = 0
    /\ tiles = <<>>
    /\ tile_pos = 0
    /\ tile_predictions = <<>>
    /\ combined = NoDocument
    /\ annotations = <<>>
    /\ keep = <<>>
    /\ keep_again = <<>>
    /\ iou_bbox1 = <<>>
    /\ iou_bbox2 = <<>>
    /\ iou = NoResult
    /\ \/ coco \in PredictorResults
       \/ coco \in TiledResults
       \/ coco \in RawPredictions
    /\ native = NoResult
    /\ restored = NoResult
    /\ AuthUnused
    /\ output_mode \in {"annotations", "predictions"}
    /\ output_format \in OutputFormats
    /\ formatted = NoResult

SpecFormat == InitFormat /\ [][NextFormat]_vars

(***************************************************************************)
(* Claims about PredictionOutputFormatter                                  *)
(***************************************************************************)

\* The result is a COCO document, as the predictor and predict_tiled return.
IsCocoDocument(result) ==
    {"images", "annotations", "categories"} \subseteq DOMAIN result

\* The objects in what the formatter returned.
EmittedObjects ==
    IF output_format = "voc" THEN formatted.objects
    ELSE IF output_format = "coco" THEN formatted.list
    ELSE LET groups == IF output_mode = "predictions"
                       THEN formatted.predictions
                       ELSE formatted.annotations
         IN  IF groups = <<>> THEN <<>> ELSE groups[1].result

\* C30: for each of the output formats labelstudio, voc and coco, formatting
\* the COCO document that the predictor or predict_tiled returned succeeds and
\* yields exactly one object per annotation of the document.
C30_OneObjectPerAnnotation ==
    (entry = "predict_image" /\ pc # "format" /\ IsCocoDocument(coco)) =>
        /\ pc = "formatted"
        /\ Len(EmittedObjects) = Len(coco.annotations)

\* The same for the output format labelstudio alone.
LabelStudioOneObjectPerAnnotation ==
    (/\ entry = "predict_image"
     /\ pc # "format"
     /\ IsCocoDocument(coco)
     /\ output_format = "labelstudio") =>
        /\ pc = "formatted"
        /\ Len(EmittedObjects) = Len(coco.annotations)

====
